---- MODULE Spec2Model ----
(***************************************************************************)
(* Traffic3D: the lane-based traffic simulation core.                      *)
(*                                                                         *)
(* Modelled classes: Car (IDM kinematics, lane-change bookkeeping), Lane   *)
(* (ordered car nodes, two-phase update), Road (lane lookup) and the       *)
(* animation frame of TrafficSimulation.                                   *)
(*                                                                         *)
(* Numbers.  The source computes in IEEE doubles.  Here every quantity is  *)
(* an integer on a unit grid (metres, seconds, m/s, m/s^2); a real-valued  *)
(* result (the IDM acceleration, a lane-to-lane position projection, a     *)
(* progress fraction) is computed exactly as a rational and rounded down   *)
(* to the grid.  null is the empty sequence <<>> and a present value v is  *)
(* <<v>> wherever the source holds "a record or null".                     *)
(*                                                                         *)
(* Lane nodes.  A CarNode belongs to the lane that created it; next and    *)
(* prev are kept per lane and per car, and are NoCar for a car that has    *)
(* no node in the lane.                                                    *)
(*                                                                         *)
(* Lane.findNeighbors and the field lane.closed are used by Car but are    *)
(* defined by no Lane class of the source tree: FindNeighbors follows the  *)
(* description of the front and back neighbour of a merge point, and       *)
(* closed is a draw of the initial state of the animation.                 *)
(*                                                                         *)
(* Lane lengths are positive here, and every car is constructed with the   *)
(* road.                                                                   *)
(***************************************************************************)
EXTENDS Integers, Sequences, FiniteSets, TLC

VARIABLES
  car,      \* car[c]: the fields of Car c
  lane,     \* lane[l]: the fields of Lane l (and the lengths of its segments)
  road,     \* the Road: its lane list
  frame,    \* position of TrafficSimulation.animate inside the current frame
  calls,    \* number of API calls made so far (Spec, SpecSpeed)
  lastOp,   \* history: the operation performed by the last step
  returned,   \* the value returned by the last query call, with its arguments
  attemptLog, \* per car: the attempts made, the tick time since the last one
  integrated, \* per car: the Car.integrate calls made on it in the current frame
  trajectory, \* the Trajectory of a car, its LanePositions and the lanes' registers
  list,       \* the reference DoublyLinkedList
  sim         \* the cars of the reference simulation

\* the parts of the state that belong to the other components
others == <<trajectory, list, sim>>

vars == <<car, lane, road, frame, calls, lastOp, returned, attemptLog, integrated, others>>

----------------------------------------------------------------------------
(* Bounds of the model *)

MaxCalls == 4     \* API calls per behaviour of Spec and SpecSpeed
MaxFrames == 4    \* animation frames per behaviour of SpecFrame

\* The population of the scene (TrafficSimulation.setupScene) and the inputs
Cars == {1, 2, 3}
LaneIds == {1, 2}

DtSet == {1, 2}
SegLengths == {4, 8}
SpeedInputs == {0, 5}
SpeedDeltas == {-1, 1}
MaxSpeedInputs == {0, 2}
PositionInputs == {-1, 5, 19}
TargetDistanceInputs == {0, 3}

----------------------------------------------------------------------------
(* Values *)

NoLane == 0
NoCar == 0
Infinity == 1000000
\* the other non-finite JavaScript numbers, as reserved values
NegInfinity == 0 - Infinity
NaN == 2 * Infinity
MinMaxSpeed == 1
MinTargetDistance == 1
MinPredictedDistance == 5
LaneChangeDuration == 1
ProgressOne == 100
IntervalMin == 3
IntervalMax == 7
IntervalChoices == {IntervalMin, IntervalMax}

Null == <<>>
Some(v) == <<v>>
Val(o) == o[1]

Max(a, b) == IF a >= b THEN a ELSE b
Min(a, b) == IF a <= b THEN a ELSE b
Clamp(value, lo, hi) == Max(lo, Min(hi, value))
EuclideanModulo(n, m) == ((n % m) + m) % m

ISqrt(n) == CHOOSE r \in 0..n : r * r <= n /\ (r + 1) * (r + 1) > n

RECURSIVE SumSeq(_)
SumSeq(s) == IF s = <<>> THEN 0 ELSE Head(s) + SumSeq(Tail(s))

SeqToSet(s) == {s[i] : i \in DOMAIN s}
IndexOf(s, x) == IF x \in SeqToSet(s) THEN CHOOSE i \in DOMAIN s : s[i] = x /\ \A j \in 1..(i - 1) : s[j] # x ELSE 0
RemoveAt(s, i) == [j \in 1..(Len(s) - 1) |-> IF j < i THEN s[j] ELSE s[j + 1]]

----------------------------------------------------------------------------
(* Car: kinematics *)

HalfLength(cr) == cr.length \div 2

Merging(cr) == cr.laneChange # Null
RetainSpeed(cr) == Merging(cr) /\ Val(cr.laneChange).retainSpeed

\* an acceleration law whose desired gap leaves out speed * safeTimeHeadway
ComputeAcceleration_NoHeadway(cr, gap, deltaSpeed) ==
  IF RetainSpeed(cr) THEN 0
  ELSE
    LET v == cr.speed
        vmax == Max(cr.maxSpeed, 1)
        a == cr.maxAcceleration
        b == cr.comfortableDeceleration
        base == Max(cr.minGap, cr.distanceGap)
        braking == deltaSpeed > 0 /\ a > 0 /\ b > 0
        dgDen == IF braking THEN 2 * ISqrt(a * b) ELSE 1
        dgNum == IF braking THEN base * dgDen + Max(0, v * deltaSpeed) ELSE base
        v4 == v * v * v * v
        vmax4 == vmax * vmax * vmax * vmax
    IN IF gap = Infinity
       THEN (a * (vmax4 - v4)) \div vmax4
       ELSE LET safeGap == Max(cr.minGap, gap)
                d == dgDen * dgDen * safeGap * safeGap
            IN IF safeGap = 0
               THEN IF dgNum = 0 \/ a = 0 THEN NaN
                    ELSE IF a > 0 THEN NegInfinity ELSE Infinity
               ELSE (a * (vmax4 * d - v4 * d - dgNum * dgNum * vmax4)) \div (vmax4 * d)

\* Car.computeAcceleration.  gap = Infinity stands for "no leader".
ComputeAcceleration(cr, gap, deltaSpeed) ==
  IF RetainSpeed(cr) THEN 0
  ELSE
    LET v == cr.speed
        vmax == Max(cr.maxSpeed, 1)
        a == cr.maxAcceleration
        b == cr.comfortableDeceleration
        base == Max(cr.minGap, cr.distanceGap + v * cr.safeTimeHeadway)
        braking == deltaSpeed > 0 /\ a > 0 /\ b > 0
        \* desiredGap = dgNum / dgDen
        dgDen == IF braking THEN 2 * ISqrt(a * b) ELSE 1
        dgNum == IF braking THEN base * dgDen + Max(0, v * deltaSpeed) ELSE base
        v4 == v * v * v * v
        vmax4 == vmax * vmax * vmax * vmax
    IN IF gap = Infinity
       THEN (a * (vmax4 - v4)) \div vmax4
       ELSE LET safeGap == Max(cr.minGap, gap)
                d == dgDen * dgDen * safeGap * safeGap
            IN IF safeGap = 0
               \* desiredGap / 0 is Infinity, 0 / 0 is NaN, and 0 * Infinity is NaN
               THEN IF dgNum = 0 \/ a = 0 THEN NaN
                    ELSE IF a > 0 THEN NegInfinity ELSE Infinity
               ELSE (a * (vmax4 * d - v4 * d - dgNum * dgNum * vmax4)) \div (vmax4 * d)

\* Car.updatePose: only the cached curve length is state here; the pose is geometry.
UpdatePose(cr, trackLength) ==
  IF trackLength > 0 THEN [cr EXCEPT !.curveLength = trackLength] ELSE cr

\* the speed rule of Car.integrate
IntegrateSpeed_NoHold(cr, acceleration, deltaTime) ==
  Clamp(cr.speed + acceleration * deltaTime, 0, cr.maxSpeed)

\* a speed rule without the clamp to [0, maxSpeed]
IntegrateSpeed_Unclamped(cr, acceleration, deltaTime) ==
  cr.speed + acceleration * deltaTime

IntegrateSpeed(cr, acceleration, deltaTime) ==
  IF RetainSpeed(cr) /\ Val(cr.laneChange).desiredSpeed # Null
  THEN Val(Val(cr.laneChange).desiredSpeed)
  ELSE IF acceleration = NaN THEN NaN
  ELSE Clamp(cr.speed + acceleration * deltaTime, 0, cr.maxSpeed)

\* the position rule of Car.integrate
WrapPosition_NoModulo(nextPosition, trackLength) == nextPosition

\* euclideanModulo(n, 0) is NaN
WrapPosition(nextPosition, trackLength) ==
  IF trackLength = 0 THEN NaN ELSE EuclideanModulo(nextPosition, trackLength)

\* Car.integrate
Integrate(cr, acceleration, deltaTime, trackLength) ==
  LET s == IntegrateSpeed(cr, acceleration, deltaTime)
      p == IF s = NaN THEN NaN ELSE WrapPosition(cr.position + s * deltaTime, trackLength)
  IN UpdatePose([cr EXCEPT !.acceleration = acceleration, !.speed = s, !.position = p],
                trackLength)

SetPathLength(cr, length) == [cr EXCEPT !.curveLength = length]

\* Car.setSpeed, Car.setMaxSpeed, Car.adjustSpeed
SetSpeedOf(cr, speed) == [cr EXCEPT !.speed = Clamp(speed, 0, cr.maxSpeed)]

SetMaxSpeedOf(cr, speed) ==
  LET m == Max(MinMaxSpeed, speed)
  IN [cr EXCEPT !.maxSpeed = m, !.speed = Min(cr.speed, m)]

AdjustSpeedOf(cr, delta) == SetSpeedOf(cr, cr.speed + delta)

\* A JavaScript argument: a number, NaN (typeof 'number', every comparison
\* false) or a value that is not a number
Num(v) == [type |-> "number", nan |-> FALSE, value |-> v]
NaNValue == [type |-> "number", nan |-> TRUE, value |-> 0]
Undefined == [type |-> "undefined", nan |-> FALSE, value |-> 0]

\* typeof x === 'number' && x > 0, and the same with >=
IsPositiveNumber(x) == x.type = "number" /\ ~x.nan /\ x.value > 0
IsNonNegativeNumber(x) == x.type = "number" /\ ~x.nan /\ x.value >= 0

\* Car.setMaxAcceleration, setComfortableDeceleration, setSafeTimeHeadway, setDistanceGap
SetMaxAccelerationOf(cr, x) ==
  IF IsPositiveNumber(x) THEN [cr EXCEPT !.maxAcceleration = x.value] ELSE cr

SetComfortableDecelerationOf(cr, x) ==
  IF IsPositiveNumber(x) THEN [cr EXCEPT !.comfortableDeceleration = x.value] ELSE cr

SetSafeTimeHeadwayOf(cr, x) ==
  IF IsNonNegativeNumber(x) THEN [cr EXCEPT !.safeTimeHeadway = x.value] ELSE cr

SetDistanceGapOf(cr, x) ==
  IF IsPositiveNumber(x) THEN [cr EXCEPT !.distanceGap = x.value] ELSE cr

SetDimensionsOf_AllOrNothing(cr, length, width, height) ==
  IF IsPositiveNumber(length) /\ IsPositiveNumber(width) /\ IsPositiveNumber(height)
  THEN [cr EXCEPT !.length = length.value, !.width = width.value, !.height = height.value]
  ELSE cr

\* Car.setDimensions({ length, width, height })
SetDimensionsOf(cr, length, width, height) ==
  LET needsUpdate == \/ IsPositiveNumber(length) /\ length.value # cr.length
                     \/ IsPositiveNumber(width) /\ width.value # cr.width
                     \/ IsPositiveNumber(height) /\ height.value # cr.height
  IN IF ~needsUpdate THEN cr
     ELSE [cr EXCEPT !.length = IF IsPositiveNumber(length) THEN length.value ELSE @,
                     !.width = IF IsPositiveNumber(width) THEN width.value ELSE @,
                     !.height = IF IsPositiveNumber(height) THEN height.value ELSE @]

----------------------------------------------------------------------------
(* Lane: ordered car nodes *)

\* Array.prototype.sort with (a, b) => a.car.position - b.car.position is a
\* stable sort: nodes at equal positions keep their relative array order.
RECURSIVE InsertByPosition(_, _, _)
InsertByPosition(sorted, x, cars) ==
  IF sorted = <<>> THEN <<x>>
  ELSE IF cars[x].position < cars[Head(sorted)].position
       THEN <<x>> \o sorted
       ELSE <<Head(sorted)>> \o InsertByPosition(Tail(sorted), x, cars)

RECURSIVE SortFrom(_, _, _)
SortFrom(sorted, rest, cars) ==
  IF rest = <<>> THEN sorted
  ELSE SortFrom(InsertByPosition(sorted, Head(rest), cars), Tail(rest), cars)

SortByPosition(nodes, cars) == SortFrom(<<>>, nodes, cars)

LinkNext_NoWrap(nodes, c) ==
  LET len == Len(nodes)
      i == IndexOf(nodes, c)
  IN IF i = 0 \/ i = len THEN NoCar ELSE nodes[i + 1]

\* node.next = carNodes[(i + 1) % len], node.prev = carNodes[(i - 1 + len) % len]
LinkNext(nodes, c) ==
  LET len == Len(nodes)
      i == IndexOf(nodes, c)
  IN IF i = 0 THEN NoCar ELSE nodes[(i % len) + 1]

LinkPrev(nodes, c) ==
  LET len == Len(nodes)
      i == IndexOf(nodes, c)
  IN IF i = 0 THEN NoCar ELSE nodes[((i - 2 + len) % len) + 1]

\* Lane.sortCars
SortCars(ln, cars) ==
  IF Len(ln.carNodes) = 0
  THEN [ln EXCEPT !.carHead = NoCar]
  ELSE LET sorted == SortByPosition(ln.carNodes, cars)
       IN [ln EXCEPT !.carNodes = sorted,
                     !.next = [c \in Cars |-> LinkNext(sorted, c)],
                     !.prev = [c \in Cars |-> LinkPrev(sorted, c)],
                     !.carHead = sorted[1]]

\* A world is the pair of the cars and the lanes: w.car, w.lane.
World(cars, lanes) == [car |-> cars, lane |-> lanes]

\* an addCar that stores the position it is given
LaneAddCar_Unwrapped(w, l, c, initialPosition) ==
  LET ln == w.lane[l]
  IN IF ln.totalLength = 0 THEN w
     ELSE LET pushed == [ln EXCEPT !.carNodes = Append(@, c)]
              cr1 == SetPathLength(w.car[c], ln.totalLength)
              cr2 == [cr1 EXCEPT !.position = initialPosition]
              cr3 == UpdatePose(cr2, ln.totalLength)
              cars == [w.car EXCEPT ![c] = cr3]
          IN World(cars, [w.lane EXCEPT ![l] = SortCars(pushed, cars)])

\* Lane.addCar
LaneAddCar(w, l, c, initialPosition) ==
  LET ln == w.lane[l]
  IN IF ln.totalLength = 0 THEN w
     ELSE LET pushed == [ln EXCEPT !.carNodes = Append(@, c)]
              cr1 == SetPathLength(w.car[c], ln.totalLength)
              cr2 == [cr1 EXCEPT !.position = EuclideanModulo(initialPosition, ln.totalLength)]
              cr3 == UpdatePose(cr2, ln.totalLength)
              cars == [w.car EXCEPT ![c] = cr3]
          IN World(cars, [w.lane EXCEPT ![l] = SortCars(pushed, cars)])

\* Lane.removeCar
LaneRemoveCar(w, l, c) ==
  LET ln == w.lane[l]
      index == IndexOf(ln.carNodes, c)
  IN IF index = 0 THEN w
     ELSE LET spliced == [ln EXCEPT !.carNodes = RemoveAt(@, index),
                                    !.next[c] = NoCar, !.prev[c] = NoCar]
          IN World(w.car, [w.lane EXCEPT ![l] = SortCars(spliced, w.car)])

\* the gap and the speed difference Lane.update passes to computeAcceleration
GapToLeader(cr, leader, totalLength) ==
  LET raw == leader.position - cr.position
      gap == IF raw <= 0 THEN raw + totalLength ELSE raw
  IN Max(0, gap - HalfLength(cr) - HalfLength(leader))

DeltaSpeed(cr, leader) == cr.speed - leader.speed

\* accelerations[i] of Lane.update (phase 1), i counted from 1
AccelerationAt(cars, ln, i) ==
  LET c == ln.carNodes[i]
  IN IF Len(ln.carNodes) = 1
     THEN ComputeAcceleration(cars[c], Infinity, 0)
     ELSE LET leader == cars[ln.next[c]]
          IN ComputeAcceleration(cars[c], GapToLeader(cars[c], leader, ln.totalLength),
                                 DeltaSpeed(cars[c], leader))

\* phase 2 of Lane.update: integrate node i, i + 1, ... with the stored accelerations
RECURSIVE IntegrateFrom(_, _, _, _, _)
IntegrateFrom(cars, ln, accelerations, i, deltaTime) ==
  IF i > Len(ln.carNodes) THEN cars
  ELSE IntegrateFrom(
         [cars EXCEPT ![ln.carNodes[i]] = Integrate(@, accelerations[i], deltaTime, ln.totalLength)],
         ln, accelerations, i + 1, deltaTime)

\* a one-pass update: each car is integrated right after its acceleration is computed
RECURSIVE SinglePassFrom(_, _, _, _)
SinglePassFrom(cars, ln, i, deltaTime) ==
  IF i > Len(ln.carNodes) THEN cars
  ELSE SinglePassFrom(
         [cars EXCEPT ![ln.carNodes[i]] = Integrate(@, AccelerationAt(cars, ln, i), deltaTime, ln.totalLength)],
         ln, i + 1, deltaTime)

UpdateCars_SinglePass(cars, ln, deltaTime) == SinglePassFrom(cars, ln, 1, deltaTime)

\* the two loops of Lane.update: all accelerations first, then all integrations
UpdateCars(cars, ln, deltaTime) ==
  LET accelerations == [i \in 1..Len(ln.carNodes) |-> AccelerationAt(cars, ln, i)]
  IN IntegrateFrom(cars, ln, accelerations, 1, deltaTime)

\* the lane once Lane.update has recomputed its length and sorted, before phase 1
LaneBeforePhase1(w, l) ==
  LET ln == w.lane[l]
      relen == [ln EXCEPT !.totalLength = SumSeq(ln.shapes)]
      cars == [c \in Cars |-> IF c \in SeqToSet(ln.carNodes)
                                THEN SetPathLength(w.car[c], relen.totalLength)
                                ELSE w.car[c]]
  IN World(cars, [w.lane EXCEPT ![l] = SortCars(relen, cars)])

\* the number of Car.integrate calls Lane.update of lane l makes on car c: one
\* for each node of the car that phase 2 walks over
IntegrateCalls(lanes, l, c) ==
  IF l = NoLane THEN 0
  ELSE IF Len(lanes[l].carNodes) = 0 \/ lanes[l].totalLength = 0 THEN 0
  ELSE Cardinality({i \in DOMAIN lanes[l].carNodes : lanes[l].carNodes[i] = c})

\* Lane.update
LaneUpdate(w, l, deltaTime) ==
  LET ln == w.lane[l]
  IN IF Len(ln.carNodes) = 0 \/ ln.totalLength = 0 THEN w
     ELSE LET b == LaneBeforePhase1(w, l)
          IN World(UpdateCars(b.car, b.lane[l], deltaTime), b.lane)

----------------------------------------------------------------------------
(* Road *)

GetLane_FromEnd(rd, index) ==
  LET i == IF index < 0 THEN Len(rd.lanes) + index ELSE index
  IN IF i + 1 \in DOMAIN rd.lanes THEN rd.lanes[i + 1] ELSE NoLane

\* Road.getLane: this.lanes[index] || null (index 0 is the left-most lane)
GetLane(rd, index) ==
  IF index + 1 \in DOMAIN rd.lanes THEN rd.lanes[index + 1] ELSE NoLane

GetLaneCount(rd) == Len(rd.lanes)

\* a road and the lane objects, as the Road methods leave them
RoadAndLanes(rd, lanes) == [road |-> rd, lane |-> lanes]

ReindexLanes_Stale(rd, lanes) == RoadAndLanes(rd, lanes)

\* Road.reindexLanes: forEach stores each lane's index in the lane (no Lane
\* class has setLaneIndex, so lane.laneIndex = index runs), then
\* currentLaneIndex is clamped
ReindexLanes(rd, lanes) ==
  LET n == Len(rd.lanes)
      lastIndexOf(l) == CHOOSE i \in 1..n : rd.lanes[i] = l /\ \A j \in (i + 1)..n : rd.lanes[j] # l
  IN RoadAndLanes(
       [rd EXCEPT !.currentLaneIndex = IF @ >= n THEN Max(0, n - 1) ELSE @],
       [l \in DOMAIN lanes |->
          IF l \in SeqToSet(rd.lanes)
          THEN [lanes[l] EXCEPT !.laneIndex = Some(lastIndexOf(l) - 1)]
          ELSE lanes[l]])

\* Array.prototype.splice(start, ...): where a start argument lands in an
\* array of length len
SpliceStart(start, len) == IF start < 0 THEN Max(0, len + start) ELSE Min(start, len)

InsertAt(s, k, x) == SubSeq(s, 1, k) \o <<x>> \o SubSeq(s, k + 1, Len(s))

\* Road.addLane(lane, index)
RoadAddLane(rd, lanes, l, index) ==
  ReindexLanes([rd EXCEPT !.lanes = InsertAt(@, SpliceStart(index, Len(@)), l)], lanes)

\* Road.removeLane(index)
RoadRemoveLane(rd, lanes, index) ==
  IF index < 0 \/ index >= Len(rd.lanes) THEN RoadAndLanes(rd, lanes)
  ELSE ReindexLanes([rd EXCEPT !.lanes = RemoveAt(@, index + 1)], lanes)

\* the value Road.removeLane returns: null, or the lane spliced out
RemovedLane(rd, index) ==
  IF index < 0 \/ index >= Len(rd.lanes) THEN NoLane ELSE rd.lanes[index + 1]

\* Road.setCurrentLaneByIndex
SetCurrentLaneByIndex(rd, index) ==
  IF index < 0 \/ index >= Len(rd.lanes) THEN rd ELSE [rd EXCEPT !.currentLaneIndex = index]

\* new Road(lanes): lanes.forEach(lane => this.addLane(lane))
RECURSIVE NewRoadFrom(_, _, _)
NewRoadFrom(rd, lanes, rest) ==
  IF rest = <<>> THEN RoadAndLanes(rd, lanes)
  ELSE LET added == RoadAddLane(rd, lanes, Head(rest), Len(rd.lanes))
       IN NewRoadFrom(added.road, added.lane, Tail(rest))

NewRoad(laneSeq, lanes) ==
  NewRoadFrom([lanes |-> <<>>, currentLaneIndex |-> 0], lanes, laneSeq)

----------------------------------------------------------------------------
(* Car: lane changes *)

\* Car.startLaneChange.  The Bezier control points are functions of the two
\* lanes and the two arc-length offsets, which is what curve records.
StartLaneChange_NoGuard(cr, fromLane, fromS, targetLane, targetS, targetDistance, duration, retainSpeed) ==
  [cr EXCEPT !.laneChange = Some([duration |-> duration, elapsed |-> 0, progress |-> 0,
                                  startPosition |-> cr.position,
                                  targetDistance |-> Max(MinTargetDistance, targetDistance),
                                  curve |-> [startLane |-> fromLane, startS |-> fromS,
                                             endLane |-> targetLane, endS |-> targetS],
                                  retainSpeed |-> retainSpeed,
                                  desiredSpeed |-> IF retainSpeed THEN Some(cr.speed) ELSE Null]),
             !.state = "MERGING"]

StartLaneChange(cr, fromLane, fromS, targetLane, targetS, targetDistance, duration, retainSpeed) ==
  IF cr.state = "MERGING" THEN cr
  ELSE StartLaneChange_NoGuard(cr, fromLane, fromS, targetLane, targetS, targetDistance, duration, retainSpeed)

CompleteLaneChange_KeepsMerging(cr, st) ==
  [cr EXCEPT !.speed = IF st.retainSpeed /\ st.desiredSpeed # Null
                       THEN Val(st.desiredSpeed) ELSE @,
             !.laneChange = Null]

\* the branch of Car.updateLaneChange taken when progress has reached 1
CompleteLaneChange(cr, st) ==
  [cr EXCEPT !.speed = IF st.retainSpeed /\ st.desiredSpeed # Null
                       THEN Val(st.desiredSpeed) ELSE @,
             !.laneChange = Null,
             !.state = "DRIVING"]

\* Car.updateLaneChange.  progress is a fraction of ProgressOne.
UpdateLaneChange(cr, lanes, deltaTime) ==
  IF cr.laneChange = Null THEN cr
  ELSE
    LET st == Val(cr.laneChange)
        laneLength == lanes[cr.path].totalLength
        travelled == EuclideanModulo(cr.position - st.startPosition, laneLength)
        elapsed == IF laneLength > 0 THEN st.elapsed ELSE st.elapsed + deltaTime
        progress == IF laneLength > 0
                    THEN Min(ProgressOne, (travelled * ProgressOne) \div st.targetDistance)
                    ELSE Min(ProgressOne, (elapsed * ProgressOne) \div st.duration)
    IN IF progress >= ProgressOne
       THEN CompleteLaneChange(cr, st)
       ELSE [cr EXCEPT !.laneChange = Some([st EXCEPT !.elapsed = elapsed, !.progress = progress])]

\* Lane.findNeighbors(position): the nearest car at or ahead of the position and
\* the nearest car behind it, with their distances along the lane (around the
\* loop when the lane is closed).
FindNeighbors(ln, cars, position) ==
  LET members == SeqToSet(ln.carNodes)
      ahead(c) == IF ln.closed THEN EuclideanModulo(cars[c].position - position, ln.totalLength)
                  ELSE cars[c].position - position
      behind(c) == IF ln.closed THEN EuclideanModulo(position - cars[c].position, ln.totalLength)
                   ELSE position - cars[c].position
      fronts == {c \in members : ahead(c) >= 0}
      backs == {c \in members : behind(c) > 0} \cup (IF ln.closed THEN members ELSE {})
      front == IF fronts = {} THEN NoCar
               ELSE CHOOSE c \in fronts : \A d \in fronts : ahead(c) < ahead(d) \/ (ahead(c) = ahead(d) /\ c <= d)
      back == IF backs = {} THEN NoCar
              ELSE CHOOSE c \in backs : \A d \in backs : behind(c) < behind(d) \/ (behind(c) = behind(d) /\ c <= d)
  IN [front |-> front, frontDistance |-> IF front = NoCar THEN Infinity ELSE ahead(front),
      back |-> back, backDistance |-> IF back = NoCar THEN Infinity ELSE behind(back)]

IsLaneChangeSafe_HintUngated(cr, cars, neighbors) ==
  LET frontRequirement == cr.distanceGap + cr.safeTimeHeadway * cr.speed + cr.length
      frontClear == neighbors.front = NoCar \/ neighbors.frontDistance > frontRequirement
      follower == neighbors.back
      followerRequirement2 ==
        cr.length + (IF follower # NoCar
                     THEN 2 * (cars[follower].distanceGap
                               + cars[follower].safeTimeHeadway * cars[follower].speed
                               + cars[follower].length)
                     ELSE 0)
      backClear == follower = NoCar \/ 2 * neighbors.backDistance > followerRequirement2
      maintainSpeed == neighbors.front = NoCar
                       \/ 2 * cars[neighbors.front].speed >= 2 * cr.speed - 1
  IN [allowed |-> frontClear /\ backClear, maintainSpeed |-> maintainSpeed]

IsLaneChangeSafe_NonStrict(cr, cars, neighbors) ==
  LET frontRequirement == cr.distanceGap + cr.safeTimeHeadway * cr.speed + cr.length
      frontClear == neighbors.front = NoCar \/ neighbors.frontDistance >= frontRequirement
      follower == neighbors.back
      followerRequirement2 ==
        cr.length + (IF follower # NoCar
                     THEN 2 * (cars[follower].distanceGap
                               + cars[follower].safeTimeHeadway * cars[follower].speed
                               + cars[follower].length)
                     ELSE 0)
      backClear == follower = NoCar \/ 2 * neighbors.backDistance >= followerRequirement2
      maintainSpeed == frontClear /\ backClear /\
                       (neighbors.front = NoCar \/ 2 * cars[neighbors.front].speed >= 2 * cr.speed - 1)
  IN [allowed |-> frontClear /\ backClear, maintainSpeed |-> maintainSpeed]

\* Car.isLaneChangeSafe.  speeds are integers, so front.speed >= speed - 0.5 is
\* 2 * front.speed >= 2 * speed - 1.
IsLaneChangeSafe(cr, cars, neighbors) ==
  LET frontRequirement == cr.distanceGap + cr.safeTimeHeadway * cr.speed + cr.length
      frontClear == neighbors.front = NoCar \/ neighbors.frontDistance > frontRequirement
      follower == neighbors.back
      \* compared doubled: length * 0.5 need not be on the grid
      followerRequirement2 ==
        cr.length + (IF follower # NoCar
                     THEN 2 * (cars[follower].distanceGap
                               + cars[follower].safeTimeHeadway * cars[follower].speed
                               + cars[follower].length)
                     ELSE 0)
      backClear == follower = NoCar \/ 2 * neighbors.backDistance > followerRequirement2
      maintainSpeed == frontClear /\ backClear /\
                       (neighbors.front = NoCar \/ 2 * cars[neighbors.front].speed >= 2 * cr.speed - 1)
  IN [allowed |-> frontClear /\ backClear, maintainSpeed |-> maintainSpeed]

\* Car.setLaneIndex
SetLaneIndex(cr, rd, lanes, index) ==
  LET ln == GetLane(rd, index)
  IN IF ln # NoLane
     THEN [cr EXCEPT !.laneIndex = index, !.path = ln, !.curveLength = lanes[ln].totalLength]
     ELSE [cr EXCEPT !.laneIndex = index]

\* the membership moves of performAutonomousLaneChange:
\* currentLane.removeCar(this); targetLane.addCar(this, targetPosition)
MoveCar_NoMove(w, currentLane, targetLane, c, targetPosition) == w

MoveCar_NoRemove(w, currentLane, targetLane, c, targetPosition) ==
  LaneAddCar(w, targetLane, c, targetPosition)

MoveCar(w, currentLane, targetLane, c, targetPosition) ==
  LaneAddCar(LaneRemoveCar(w, currentLane, c), targetLane, c, targetPosition)

\* Car.performAutonomousLaneChange (currentLane is the car's path, never null)
PerformAutonomousLaneChange(w, rd, c, currentLane, targetLane, targetIndex, targetPosition, retainSpeed) ==
  LET cr == w.car[c]
      fromS == cr.position      \* fromProgress * fromLength
      targetLength == w.lane[targetLane].totalLength
      duration == LaneChangeDuration
      predictedDistance == Max(MinPredictedDistance,
                               cr.speed * duration + (cr.maxAcceleration * duration * duration) \div 2)
      targetDistance == Min(predictedDistance,
                            IF targetLength > 0 THEN targetLength \div 2 ELSE predictedDistance)
      closedEnd == EuclideanModulo(targetPosition + targetDistance, targetLength)
      openEnd == Min(targetPosition + targetDistance, targetLength)
      endPosition == IF targetLength > 0
                     THEN (IF w.lane[targetLane].closed THEN closedEnd ELSE openEnd)
                     ELSE targetPosition
      abandoned == targetLength > 0 /\ ~w.lane[targetLane].closed /\ openEnd >= targetLength
  IN IF abandoned THEN w
     ELSE LET moved == MoveCar(w, currentLane, targetLane, c, targetPosition)
              indexed == SetLaneIndex(moved.car[c], rd, moved.lane, targetIndex)
              posed == UpdatePose(indexed, moved.lane[targetLane].totalLength)
              \* endPosition / targetLength is 0 / 0 on a target lane of length 0
              started == StartLaneChange(posed, currentLane, fromS, targetLane,
                                         IF targetLength > 0 THEN endPosition ELSE NaN,
                                         targetDistance, duration, retainSpeed)
          IN World([moved.car EXCEPT ![c] = started], moved.lane)

\* targetPosition of Car.attemptAutonomousLaneChange:
\* progress * targetLane.getLength(), progress = position / currentLane.getLength()
AttemptTargetPosition(w, c, targetLane) ==
  (w.car[c].position * w.lane[targetLane].totalLength) \div w.lane[w.car[c].path].totalLength

\* safety of Car.attemptAutonomousLaneChange, for a target lane of the road
AttemptSafety(w, c, targetLane) ==
  IsLaneChangeSafe(w.car[c], w.car,
                   FindNeighbors(w.lane[targetLane], w.car, AttemptTargetPosition(w, c, targetLane)))

AttemptAutonomousLaneChange_Unchecked(w, rd, c, direction) ==
  LET cr == w.car[c]
      laneCount == GetLaneCount(rd)
      targetIndex == cr.laneIndex + direction
  IN IF cr.state = "MERGING" \/ laneCount <= 1 THEN w
     ELSE IF targetIndex < 0 \/ targetIndex >= laneCount THEN w
     ELSE LET targetLane == GetLane(rd, targetIndex)
          IN PerformAutonomousLaneChange(w, rd, c, cr.path, targetLane, targetIndex,
                                         AttemptTargetPosition(w, c, targetLane),
                                         AttemptSafety(w, c, targetLane).maintainSpeed)

\* Car.attemptAutonomousLaneChange; direction is the random draw, -1 or 1
AttemptAutonomousLaneChange(w, rd, c, direction) ==
  LET cr == w.car[c]
      laneCount == GetLaneCount(rd)
      targetIndex == cr.laneIndex + direction
  IN IF cr.state = "MERGING" \/ laneCount <= 1 THEN w
     ELSE IF targetIndex < 0 \/ targetIndex >= laneCount THEN w
     ELSE LET currentLane == cr.path
              targetLane == GetLane(rd, targetIndex)
              targetPosition == AttemptTargetPosition(w, c, targetLane)
              safety == AttemptSafety(w, c, targetLane)
          IN IF safety.allowed
             THEN PerformAutonomousLaneChange(w, rd, c, currentLane, targetLane, targetIndex,
                                              targetPosition, safety.maintainSpeed)
             ELSE w

\* the test of Car.updateAutonomousLaneChange that leads to an attempt
AttemptDue(cr, deltaTime) ==
  /\ cr.state # "MERGING"
  /\ cr.laneChangeTimer + deltaTime >= cr.nextLaneChangeTime

UpdateAutonomousLaneChange_NoReset(w, rd, c, deltaTime, direction, interval) ==
  LET cr == w.car[c]
      timer == cr.laneChangeTimer + deltaTime
      ticked == World([w.car EXCEPT ![c].laneChangeTimer = timer], w.lane)
  IN IF cr.state = "MERGING" THEN w
     ELSE IF timer >= cr.nextLaneChangeTime
          THEN LET tried == AttemptAutonomousLaneChange(ticked, rd, c, direction)
               IN World([tried.car EXCEPT ![c].nextLaneChangeTime = interval], tried.lane)
          ELSE ticked

\* Car.updateAutonomousLaneChange; interval is the draw of getRandomLaneChangeInterval
UpdateAutonomousLaneChange(w, rd, c, deltaTime, direction, interval) ==
  LET cr == w.car[c]
      timer == cr.laneChangeTimer + deltaTime
  IN IF cr.state = "MERGING" THEN w
     ELSE IF timer >= cr.nextLaneChangeTime
          THEN LET tried == AttemptAutonomousLaneChange(
                              World([w.car EXCEPT ![c].laneChangeTimer = timer], w.lane),
                              rd, c, direction)
               IN World([tried.car EXCEPT ![c].laneChangeTimer = 0,
                                          ![c].nextLaneChangeTime = interval],
                        tried.lane)
          ELSE World([w.car EXCEPT ![c].laneChangeTimer = timer], w.lane)

----------------------------------------------------------------------------
(* Construction: TrafficSimulation.setupScene *)

ControlledCar == 1

LaneShapes(l) == IF l = 1 THEN <<4, 8>> ELSE <<8, 8>>

InitLaneIndex(c) == IF c = 3 THEN 1 ELSE 0
InitPosition(c) == IF c = 1 THEN 1 ELSE IF c = 2 THEN 5 ELSE 11
InitMaxSpeed(c) == IF c = 1 THEN 3 ELSE IF c = 2 THEN 2 ELSE 1
InitSpeed(c) == IF c = 1 THEN 2 ELSE 1
InitHeadway(c) == IF c = 2 THEN 0 ELSE 1

\* new Lane({ shapes })
NewLane(shapes, closed) ==
  [shapes |-> shapes, totalLength |-> SumSeq(shapes), carNodes |-> <<>>,
   next |-> [c \in Cars |-> NoCar], prev |-> [c \in Cars |-> NoCar],
   carHead |-> NoCar, closed |-> closed, laneIndex |-> Null]

\* the fields the Car constructor sets once its path is known
NewCarOn(c, path, lanes, laneIndex, interval) ==
  LET maxSpeed == Max(MinMaxSpeed, InitMaxSpeed(c))
  IN [laneIndex |-> laneIndex, path |-> path,
      length |-> 2, width |-> 2, height |-> 1, maxSpeed |-> maxSpeed, maxAcceleration |-> 2,
      comfortableDeceleration |-> 2, safeTimeHeadway |-> InitHeadway(c),
      minGap |-> 1, distanceGap |-> 1,
      speed |-> Clamp(InitSpeed(c), 0, maxSpeed), acceleration |-> 0, position |-> 0,
      curveLength |-> lanes[path].totalLength,
      laneChange |-> Null, state |-> "DRIVING",
      laneChangeTimer |-> 0, nextLaneChangeTime |-> interval]

\* new Car({ road, laneIndex, ... }); every car is given the road
NewCar(c, rd, lanes, laneIndex, interval) ==
  NewCarOn(c, GetLane(rd, laneIndex), lanes, laneIndex, interval)

\* this.path = path || (road ? road.getLane(laneIndex) : null)
ResolvePath(rd, roadGiven, laneIndex, pathArg) ==
  IF pathArg # NoLane THEN pathArg
  ELSE IF roadGiven THEN GetLane(rd, laneIndex) ELSE NoLane

\* a constructor that falls back to the first lane instead of throwing
CarConstructor_DefaultPath(c, rd, lanes, roadGiven, laneIndex, pathArg, interval) ==
  LET path == ResolvePath(rd, roadGiven, laneIndex, pathArg)
  IN [threw |-> FALSE,
      created |-> Some(NewCarOn(c, IF path = NoLane THEN 1 ELSE path, lanes,
                                laneIndex, interval))]

\* the Car constructor: it throws when no path is resolved, otherwise it
\* returns the new car
CarConstructor(c, rd, lanes, roadGiven, laneIndex, pathArg, interval) ==
  LET path == ResolvePath(rd, roadGiven, laneIndex, pathArg)
  IN IF path = NoLane
     THEN [threw |-> TRUE, created |-> Null]
     ELSE [threw |-> FALSE,
           created |-> Some(NewCarOn(c, path, lanes, laneIndex, interval))]

\* no car has attempted a lane change yet
NoAttempts == [c \in Cars |-> [attempts |-> 0, elapsed |-> 0]]

\* lane.addCar(car, initialPosition) for each car in turn
RECURSIVE PlaceCars(_, _, _)
PlaceCars(w, rd, cs) ==
  IF cs = {} THEN w
  ELSE LET c == CHOOSE x \in cs : \A y \in cs : x <= y
       IN PlaceCars(LaneAddCar(w, GetLane(rd, w.car[c].laneIndex), c, InitPosition(c)),
                    rd, cs \ {c})

Setup(closed, laneIndexOf, intervalOf) ==
  LET made == NewRoad(<<1, 2>>, [l \in LaneIds |-> NewLane(LaneShapes(l), closed)])
      lanes == made.lane
      rd == made.road
      cars == [c \in Cars |-> NewCar(c, rd, lanes, laneIndexOf[c], intervalOf[c])]
      w == PlaceCars(World(cars, lanes), rd, Cars)
  IN /\ car = w.car
     /\ lane = w.lane
     /\ road = rd
     /\ frame = [phase |-> "idle", i |-> 0, dt |-> 0, n |-> 0]
     /\ calls = 0
     /\ lastOp = [name |-> "setup", car |-> NoCar, lane |-> NoLane, dt |-> 0]
     /\ returned = Null
     /\ attemptLog = NoAttempts
     /\ integrated = [c \in Cars |-> 0]
     /\ trajectory = Null
     /\ list = Null
     /\ sim = Null

\* the scene with its random draws
InitFrame ==
  \E closed \in BOOLEAN, third \in {0, 1}, intervalOf \in [Cars -> IntervalChoices] :
    Setup(closed, [c \in Cars |-> IF c = 3 THEN third ELSE InitLaneIndex(c)], intervalOf)

\* the scene of the API specifications: the lane-change timers play no part in them
Init ==
  \E third \in {0, 1} :
    Setup(TRUE, [c \in Cars |-> IF c = 3 THEN third ELSE InitLaneIndex(c)],
          [c \in Cars |-> IntervalMin])

----------------------------------------------------------------------------
(* Operations *)

Members(l) == SeqToSet(lane[l].carNodes)
InLane(c, l) == c \in Members(l)
Outside(c) == \A l \in LaneIds : ~InLane(c, l)

Becomes(w) == car' = w.car /\ lane' = w.lane

ApiCall(name, c, l, dt) ==
  /\ frame.phase = "idle"
  /\ calls < MaxCalls
  /\ calls' = calls + 1
  /\ lastOp' = [name |-> name, car |-> c, lane |-> l, dt |-> dt]
  /\ UNCHANGED <<road, frame, returned, attemptLog, integrated, others>>

\* lane.addCar(car, p) for a car that is in no lane
AddCar(l, c, p) ==
  /\ Outside(c)
  /\ ApiCall("addCar", c, l, 0)
  /\ Becomes(LaneAddCar(World(car, lane), l, c, p))

\* lane.removeCar(car)
RemoveCar(l, c) ==
  /\ ApiCall("removeCar", c, l, 0)
  /\ Becomes(LaneRemoveCar(World(car, lane), l, c))

\* lane.update(dt)
Update(l, dt) ==
  /\ ApiCall("update", NoCar, l, dt)
  /\ Becomes(LaneUpdate(World(car, lane), l, dt))

\* the geometry provider changes the length of segment k of lane l
ShapeChange(l, k, len) ==
  /\ ApiCall("shapeChange", NoCar, l, 0)
  /\ lane' = [lane EXCEPT ![l].shapes[k] = len]
  /\ UNCHANGED car

\* car.setSpeed(s)
SetSpeed(c, s) ==
  /\ ApiCall("setSpeed", c, NoLane, 0)
  /\ car' = [car EXCEPT ![c] = SetSpeedOf(@, s)]
  /\ UNCHANGED lane

\* car.adjustSpeed(delta)
AdjustSpeed(c, delta) ==
  /\ ApiCall("adjustSpeed", c, NoLane, 0)
  /\ car' = [car EXCEPT ![c] = AdjustSpeedOf(@, delta)]
  /\ UNCHANGED lane

\* car.setMaxSpeed(s)
SetMaxSpeed(c, s) ==
  /\ ApiCall("setMaxSpeed", c, NoLane, 0)
  /\ car' = [car EXCEPT ![c] = SetMaxSpeedOf(@, s)]
  /\ UNCHANGED lane

\* car.startLaneChange(car.getLane(), position / length, targetLane, position / length, d, 1, retain)
ManualStart(c, targetLane, targetDistance, retainSpeed) ==
  /\ ApiCall("startLaneChange", c, targetLane, 0)
  /\ car' = [car EXCEPT ![c] =
               StartLaneChange(@, car[c].path, car[c].position, targetLane,
                               (car[c].position * lane[targetLane].totalLength)
                                 \div lane[car[c].path].totalLength,
                               targetDistance, LaneChangeDuration, retainSpeed)]
  /\ UNCHANGED lane

\* car.updateLaneChange(dt)
AdvanceLaneChange(c, dt) ==
  /\ ApiCall("updateLaneChange", c, NoLane, dt)
  /\ car' = [car EXCEPT ![c] = UpdateLaneChange(@, lane, dt)]
  /\ UNCHANGED lane

\* one direct car.startLaneChange call between two frames
KeyStart(targetLane, retainSpeed) ==
  /\ calls = 0
  /\ ManualStart(ControlledCar, targetLane, 3, retainSpeed)

----------------------------------------------------------------------------
(* TrafficSimulation.animate: one frame is the lane loop, then the car loop *)

FrameBegin(dt) ==
  /\ frame.phase = "idle"
  /\ frame.n < MaxFrames
  /\ frame' = [phase |-> "lanes", i |-> 0, dt |-> dt, n |-> frame.n + 1]
  /\ lastOp' = [name |-> "animate", car |-> NoCar, lane |-> NoLane, dt |-> dt]
  /\ integrated' = [c \in Cars |-> 0]
  /\ UNCHANGED <<car, lane, road, calls, returned, attemptLog, others>>

\* this.road.getLane(i)?.update(deltaTime)
FrameLane ==
  /\ frame.phase = "lanes"
  /\ LET l == GetLane(road, frame.i)
         last == frame.i + 1 >= GetLaneCount(road)
     IN /\ Becomes(IF l = NoLane THEN World(car, lane)
                   ELSE LaneUpdate(World(car, lane), l, frame.dt))
        /\ frame' = IF last THEN [frame EXCEPT !.phase = "cars", !.i = 1]
                    ELSE [frame EXCEPT !.i = @ + 1]
        /\ lastOp' = [name |-> "update", car |-> NoCar, lane |-> l, dt |-> frame.dt]
        /\ integrated' = [c \in Cars |-> integrated[c] + IntegrateCalls(lane, l, c)]
  /\ UNCHANGED <<road, calls, returned, attemptLog, others>>

\* car.updateLaneChange(deltaTime) of the car loop
FrameCarLaneChange ==
  /\ frame.phase = "cars"
  /\ car' = [car EXCEPT ![frame.i] = UpdateLaneChange(@, lane, frame.dt)]
  /\ frame' = [frame EXCEPT !.phase = "autonomous"]
  /\ lastOp' = [name |-> "updateLaneChange", car |-> frame.i, lane |-> NoLane, dt |-> frame.dt]
  /\ UNCHANGED <<lane, road, calls, returned, attemptLog, integrated, others>>

\* car.updateAutonomousLaneChange(deltaTime) of the car loop, for the same car
FrameCarAutonomous(direction, interval) ==
  /\ frame.phase = "autonomous"
  /\ LET c == frame.i
         last == c + 1 > Cardinality(Cars)
     IN /\ Becomes(UpdateAutonomousLaneChange(World(car, lane), road, c, frame.dt,
                                              direction, interval))
        /\ frame' = IF last THEN [frame EXCEPT !.phase = "idle", !.i = 0]
                    ELSE [frame EXCEPT !.phase = "cars", !.i = @ + 1]
        /\ lastOp' = [name |-> "updateAutonomousLaneChange", car |-> c, lane |-> NoLane,
                      dt |-> frame.dt]
  /\ UNCHANGED <<road, calls, returned, attemptLog, integrated, others>>

----------------------------------------------------------------------------
(* Specifications *)

\* the lane API
Next ==
  \/ \E l \in LaneIds, c \in Cars, p \in PositionInputs : AddCar(l, c, p)
  \/ \E l \in LaneIds, c \in Cars : RemoveCar(l, c)
  \/ \E l \in LaneIds, dt \in DtSet : Update(l, dt)
  \/ \E l \in LaneIds, k \in 1..2, len \in SegLengths : ShapeChange(l, k, len)
  \/ \E c \in Cars, s \in SpeedInputs : SetSpeed(c, s)

Spec == Init /\ [][Next]_vars

\* the speed and lane-change API of the controlled car, with lane ticks
NextSpeed ==
  \/ \E s \in SpeedInputs : SetSpeed(ControlledCar, s)
  \/ \E d \in SpeedDeltas : AdjustSpeed(ControlledCar, d)
  \/ \E s \in MaxSpeedInputs : SetMaxSpeed(ControlledCar, s)
  \/ \E t \in LaneIds, d \in TargetDistanceInputs, r \in BOOLEAN : ManualStart(ControlledCar, t, d, r)
  \/ \E dt \in DtSet : AdvanceLaneChange(ControlledCar, dt)
  \/ \E l \in LaneIds, dt \in DtSet : Update(l, dt)

SpecSpeed == Init /\ [][NextSpeed]_vars

\* the animation loop, with lane changes started by hand between frames
NextFrame ==
  \/ \E dt \in DtSet : FrameBegin(dt)
  \/ FrameLane
  \/ FrameCarLaneChange
  \/ \E direction \in {-1, 1}, interval \in IntervalChoices : FrameCarAutonomous(direction, interval)
  \/ \E t \in LaneIds, r \in BOOLEAN : KeyStart(t, r)

SpecFrame == InitFrame /\ [][NextFrame]_vars

----------------------------------------------------------------------------
(* Properties of Lane.update, Lane.addCar and Lane.removeCar *)

\* the step is a Lane.update call on lane l that got past the early return
UpdateStepOn(l) ==
  /\ lastOp'.name = "update"
  /\ lastOp'.lane = l
  /\ Len(lane[l].carNodes) > 0
  /\ lane[l].totalLength # 0

\* C1: in one Lane.update call every acceleration is computed before the first
\* integrate: the acceleration each vehicle is integrated with is the one
\* computeAcceleration gives on the pre-tick positions and speeds of the vehicle
\* and of its leader, and its new position is its pre-tick position advanced
\* with the new speed.
C1_AccelerationsFromPreTickState ==
  [][\A l \in LaneIds :
       UpdateStepOn(l) =>
         LET b == LaneBeforePhase1(World(car, lane), l)
             ln == b.lane[l]
         IN \A i \in DOMAIN ln.carNodes :
              LET c == ln.carNodes[i]
              IN /\ car'[c].acceleration = AccelerationAt(b.car, ln, i)
                 /\ car'[c].position =
                      EuclideanModulo(car[c].position + car'[c].speed * lastOp'.dt,
                                      ln.totalLength)]_vars

\* a tick of a lane with several vehicles in which the first vehicle of the
\* array moved: its follower, the last of the array, is integrated after it
C1_Witness ==
  /\ lastOp.name = "update"
  /\ lastOp.lane # NoLane
  /\ Len(lane[lastOp.lane].carNodes) >= 2
  /\ car[lane[lastOp.lane].carNodes[1]].speed > 0
  /\ car[lane[lastOp.lane].carNodes[Len(lane[lastOp.lane].carNodes)]].acceleration # 0

\* the orders the array of a lane can be in
ArrayOrders(nodes) ==
  {p \in [DOMAIN nodes -> SeqToSet(nodes)] : \A i, j \in DOMAIN nodes : p[i] = p[j] => i = j}

\* Lane.update gives every vehicle the same position and speed from the two array orders
SameTick(l, nodes1, nodes2, dt) ==
  LET w1 == LaneUpdate(World(car, [lane EXCEPT ![l].carNodes = nodes1]), l, dt)
      w2 == LaneUpdate(World(car, [lane EXCEPT ![l].carNodes = nodes2]), l, dt)
  IN \A c \in Cars : /\ w1.car[c].position = w2.car[c].position
                     /\ w1.car[c].speed = w2.car[c].speed

\* C2 as stated: with three vehicles on a lane, Lane.update gives the same
\* positions and speeds whatever the order of the lane's array before the call.
C2_OrderIndependence ==
  \A l \in LaneIds :
    Len(lane[l].carNodes) = 3 =>
      \A p \in ArrayOrders(lane[l].carNodes), dt \in DtSet :
        SameTick(l, lane[l].carNodes, p, dt)

\* C3 as stated: every vehicle has 0 <= speed <= maxSpeed.
C3_SpeedBound ==
  \A c \in Cars : 0 <= car[c].speed /\ car[c].speed <= car[c].maxSpeed

\* C4: a vehicle that is a member of a lane has 0 <= position < L, L the
\* total length the lane used in its last addCar or update.
C4_PositionInRange ==
  \A l \in LaneIds : \A c \in Members(l) :
    0 <= car[c].position /\ car[c].position < lane[l].totalLength

\* a tick of a lane whose length has changed since construction, in which a
\* vehicle went past the end of the lane
C4_Witness ==
  /\ lastOp.name = "update"
  /\ lastOp.lane # NoLane
  /\ lane[lastOp.lane].totalLength # SumSeq(LaneShapes(lastOp.lane))
  /\ \E c \in Members(lastOp.lane) : car[c].position < car[c].speed * lastOp.dt

Sorted(nodes, cars) ==
  \A i, j \in DOMAIN nodes : i < j => cars[nodes[i]].position <= cars[nodes[j]].position

CyclicLinks(ln) ==
  LET len == Len(ln.carNodes)
  IN \A i \in DOMAIN ln.carNodes :
       /\ ln.next[ln.carNodes[i]] = ln.carNodes[(i % len) + 1]
       /\ ln.prev[ln.carNodes[i]] = ln.carNodes[((i - 2 + len) % len) + 1]

\* C5 as stated: between operations every lane's sequence is sorted by
\* ascending position and next and prev are the cyclic successor and predecessor.
C5_SortedBetweenOperations ==
  \A l \in LaneIds : Sorted(lane[l].carNodes, car) /\ CyclicLinks(lane[l])

\* C5 amended: right after addCar, and after a removeCar that removed a
\* vehicle, the lane's sequence is sorted by ascending position; when
\* Lane.update returns the sequence is sorted by the pre-tick positions; in all
\* three cases next and prev are the cyclic successor and predecessor in the
\* sequence.
C5_SortedAfterSort ==
  [][\A l \in LaneIds :
       /\ (lastOp'.lane = l /\ (lastOp'.name = "addCar"
                                \/ (lastOp'.name = "removeCar" /\ InLane(lastOp'.car, l)))
             => Sorted(lane'[l].carNodes, car') /\ CyclicLinks(lane'[l]))
       /\ (UpdateStepOn(l)
             => Sorted(lane'[l].carNodes, car) /\ CyclicLinks(lane'[l]))]_vars

\* an addCar that had to move the new node forward in the array
C5_Witness ==
  /\ lastOp.name = "addCar"
  /\ Len(lane[lastOp.lane].carNodes) >= 2
  /\ lane[lastOp.lane].carNodes[Len(lane[lastOp.lane].carNodes)] # lastOp.car

\* C6 as stated: on a lane with two or more vehicles the gap passed to
\* computeAcceleration is max(0, ((next.position - position) mod totalLength)
\* - halfLength(self) - halfLength(next)) and deltaSpeed is speed - next.speed.
C6_GapIsModuloDistance ==
  \A l \in LaneIds :
    Len(lane[l].carNodes) >= 2 /\ lane[l].totalLength # 0 =>
      LET b == LaneBeforePhase1(World(car, lane), l)
          ln == b.lane[l]
      IN \A i \in DOMAIN ln.carNodes :
           LET self == b.car[ln.carNodes[i]]
               next == b.car[ln.next[ln.carNodes[i]]]
           IN /\ GapToLeader(self, next, ln.totalLength) =
                   Max(0, EuclideanModulo(next.position - self.position, ln.totalLength)
                          - HalfLength(self) - HalfLength(next))
              /\ DeltaSpeed(self, next) = self.speed - next.speed

----------------------------------------------------------------------------
(* Properties of lane changes *)

Curve(cr) == Val(cr.laneChange).curve

MembersAfter(l) == SeqToSet(lane'[l].carNodes)

Occurrences(c, l) == Cardinality({i \in DOMAIN lane[l].carNodes : lane[l].carNodes[i] = c})

C10_StartWhileMergingIsNoOp ==
  [][lastOp'.name = "startLaneChange" /\ car[lastOp'.car].state = "MERGING" =>
       car' = car /\ lane' = lane]_vars

\* startLaneChange has just been called on a vehicle whose transition was
\* already under way: it has moved since the transition started
C10_Witness ==
  /\ lastOp.name = "startLaneChange"
  /\ car[lastOp.car].state = "MERGING"
  /\ Merging(car[lastOp.car])
  /\ car[lastOp.car].position # Val(car[lastOp.car].laneChange).startPosition

----------------------------------------------------------------------------
(* Properties of the lane-change state machine *)

\* C11: a vehicle's state is DRIVING or MERGING, and it is MERGING exactly
\* when the vehicle holds a transition record.
C11_MergingIffTransition ==
  \A c \in Cars :
    /\ car[c].state \in {"DRIVING", "MERGING"}
    /\ car[c].state = "MERGING" <=> car[c].laneChange # Null

\* a vehicle part-way through a transition started by an autonomous lane change
C11_Witness ==
  \E c \in {1, 2} :
    /\ car[c].state = "MERGING"
    /\ car[c].laneChange # Null
    /\ Val(car[c].laneChange).progress > 0
    /\ car[c].laneIndex # InitLaneIndex(c)

----------------------------------------------------------------------------
(* Car.isLaneChangeSafe on its own: car 1 is the merging vehicle, car 2 the *)
(* front neighbour and car 3 the follower it may be given                   *)

SafetySpeeds == {0, 4, 5}
SafetyGaps == {1, 3}
SafetyHeadways == {0, 1}
SafetyLengths == {2, 4}
FrontDistances == {3, 12, 13}
BackDistances == {1, 14, 15}

\* the { front, frontDistance, back, backDistance } objects given to isLaneChangeSafe
NeighborInputs ==
  {[front |-> f, frontDistance |-> IF f = NoCar THEN Infinity ELSE fd,
    back |-> b, backDistance |-> IF b = NoCar THEN Infinity ELSE bd] :
     f \in {NoCar, 2}, fd \in FrontDistances, b \in {NoCar, 3}, bd \in BackDistances}

\* the scene, with the driver parameters the constructor was given
InitSafety ==
  \E v \in SafetySpeeds \ {4}, fv \in SafetySpeeds, bv \in SafetySpeeds \ {4},
     dg \in SafetyGaps, bdg \in SafetyGaps, h \in SafetyHeadways, bh \in SafetyHeadways,
     len \in SafetyLengths, blen \in SafetyLengths, single \in BOOLEAN :
    LET made == NewRoad(IF single THEN <<1>> ELSE <<1, 2>>,
                        [l \in LaneIds |-> NewLane(LaneShapes(l), TRUE)])
        lanes == made.lane
        rd == made.road
        built == [c \in Cars |-> NewCar(c, rd, lanes, IF single THEN 0 ELSE InitLaneIndex(c),
                                        IntervalMin)]
        cars == [built EXCEPT
                   ![1].maxSpeed = Max(@, v), ![1].speed = v, ![1].distanceGap = dg,
                   ![1].safeTimeHeadway = h, ![1].length = len,
                   ![2].maxSpeed = Max(@, fv), ![2].speed = fv,
                   ![3].maxSpeed = Max(@, bv), ![3].speed = bv, ![3].distanceGap = bdg,
                   ![3].safeTimeHeadway = bh, ![3].length = blen]
        w == PlaceCars(World(cars, lanes), rd, Cars)
    IN /\ car = w.car
       /\ lane = w.lane
       /\ road = rd
       /\ frame = [phase |-> "idle", i |-> 0, dt |-> 0, n |-> 0]
       /\ calls = 0
       /\ lastOp = [name |-> "setup", car |-> NoCar, lane |-> NoLane, dt |-> 0]
       /\ returned = Null
       /\ attemptLog = NoAttempts
       /\ integrated = [c \in Cars |-> 0]
       /\ trajectory = Null
       /\ list = Null
       /\ sim = Null

\* car.isLaneChangeSafe(neighbors)
SafetyCheck(c, neighbors) ==
  /\ returned' = Some([car |-> c, neighbors |-> neighbors,
                       result |-> IsLaneChangeSafe(car[c], car, neighbors)])
  /\ lastOp' = [name |-> "isLaneChangeSafe", car |-> c, lane |-> NoLane, dt |-> 0]
  /\ UNCHANGED <<car, lane, road, frame, calls, attemptLog, integrated, others>>

\* car.attemptAutonomousLaneChange(), with its draw of the direction
Attempt(c, direction) ==
  /\ Becomes(AttemptAutonomousLaneChange(World(car, lane), road, c, direction))
  /\ returned' = Some([car |-> c, direction |-> direction])
  /\ lastOp' = [name |-> "attemptAutonomousLaneChange", car |-> c, lane |-> NoLane, dt |-> 0]
  /\ UNCHANGED <<road, frame, calls, attemptLog, integrated, others>>

NextSafety ==
  \/ \E n \in NeighborInputs : SafetyCheck(1, n)
  \/ \E c \in Cars, direction \in {-1, 1} : Attempt(c, direction)

SpecSafety == InitSafety /\ [][NextSafety]_vars

\* C12: isLaneChangeSafe returns allowed = true exactly when (there is no front
\* neighbour or frontDistance > distanceGap + safeTimeHeadway * speed + length of
\* the merging vehicle) and (there is no follower or backDistance > length / 2
\* of the merging vehicle + the follower's distanceGap + safeTimeHeadway * speed
\* + length); a distance equal to the requirement is not clear.
C12_AllowedIffBothClear ==
  lastOp.name = "isLaneChangeSafe" =>
    LET r == Val(returned)
        n == r.neighbors
        self == car[r.car]
        frontClear == n.front = NoCar
                      \/ n.frontDistance > self.distanceGap + self.safeTimeHeadway * self.speed
                                           + self.length
        \* doubled: length / 2 is compared exactly
        backClear == n.back = NoCar
                     \/ 2 * n.backDistance >
                          self.length + 2 * (car[n.back].distanceGap
                                             + car[n.back].safeTimeHeadway * car[n.back].speed
                                             + car[n.back].length)
    IN r.result.allowed <=> (frontClear /\ backClear)

\* the follower of the example: backDistance 1, distanceGap 3, safeTimeHeadway 1,
\* speed 5, length 4, no front neighbour, and the lane change is refused
C12_Witness ==
  /\ lastOp.name = "isLaneChangeSafe"
  /\ Val(returned).neighbors.front = NoCar
  /\ Val(returned).neighbors.back = 3
  /\ Val(returned).neighbors.backDistance = 1
  /\ car[3].distanceGap = 3 /\ car[3].safeTimeHeadway = 1
  /\ car[3].speed = 5 /\ car[3].length = 4
  /\ ~Val(returned).result.allowed

\* the step is car.attemptAutonomousLaneChange() on c, and it started a transition
AttemptStarted(c) ==
  /\ lastOp'.name = "attemptAutonomousLaneChange"
  /\ lastOp'.car = c
  /\ ~Merging(car[c])
  /\ Merging(car'[c])

\* C13: isLaneChangeSafe sets maintainSpeed exactly when the lane change is
\* allowed and there is no front neighbour or front.speed >= speed - 0.5, so
\* never when allowed is false; the transition an autonomous lane change starts
\* has this value as its retainSpeed flag.
C13_MaintainSpeedIsRetainSpeed ==
  [][/\ (lastOp'.name = "isLaneChangeSafe" =>
           LET r == Val(returned')
               n == r.neighbors
               notSlower == n.front = NoCar
                            \/ 2 * car[n.front].speed >= 2 * car[r.car].speed - 1
           IN /\ r.result.maintainSpeed <=> (r.result.allowed /\ notSlower)
              /\ r.result.maintainSpeed => r.result.allowed)
     /\ \A c \in Cars :
          AttemptStarted(c) =>
            LET target == GetLane(road, car[c].laneIndex + Val(returned').direction)
                safety == AttemptSafety(World(car, lane), c, target)
            IN /\ safety.allowed
               /\ Val(car'[c].laneChange).retainSpeed = safety.maintainSpeed]_vars

\* an autonomous lane change that has just started with retainSpeed set, the
\* front neighbour in the target lane being no slower than the vehicle
C13_Witness ==
  /\ lastOp.name = "attemptAutonomousLaneChange"
  /\ Merging(car[lastOp.car])
  /\ Val(car[lastOp.car].laneChange).retainSpeed
  /\ Val(car[lastOp.car].laneChange).startPosition = car[lastOp.car].position
  /\ car[lastOp.car].laneIndex # InitLaneIndex(lastOp.car)
  /\ \E d \in Members(car[lastOp.car].path) \ {lastOp.car} :
       car[d].speed >= car[lastOp.car].speed

\* the cases in which Car.attemptAutonomousLaneChange on c with the drawn
\* direction must do nothing
AttemptRefused(c, direction) ==
  LET targetIndex == car[c].laneIndex + direction
  IN \/ car[c].state = "MERGING"
     \/ GetLaneCount(road) <= 1
     \/ targetIndex < 0
     \/ targetIndex >= GetLaneCount(road)
     \/ ~AttemptSafety(World(car, lane), c, GetLane(road, targetIndex)).allowed

\* C14: an autonomous attempt leaves the membership of every lane and the
\* vehicle's laneIndex, path, position, speed and state unchanged when the
\* vehicle is already MERGING, the road has at most one lane, the target index
\* is outside 0..laneCount-1 or the safety check does not allow the change; a
\* lane change is started only when none of these holds.
C14_RefusedAttemptChangesNothing ==
  [][lastOp'.name = "attemptAutonomousLaneChange" =>
       LET c == lastOp'.car
           refused == AttemptRefused(c, Val(returned').direction)
       IN /\ refused =>
               /\ \A l \in LaneIds : MembersAfter(l) = Members(l)
               /\ car'[c].laneIndex = car[c].laneIndex
               /\ car'[c].path = car[c].path
               /\ car'[c].position = car[c].position
               /\ car'[c].speed = car[c].speed
               /\ car'[c].state = car[c].state
               /\ car'[c].laneChange = car[c].laneChange
          /\ (~Merging(car[c]) /\ Merging(car'[c])) => ~refused]_vars

\* an attempt that the safety check refused: the vehicle is still DRIVING in
\* its lane of a two-lane road, next to an existing target lane
C14_Witness ==
  /\ lastOp.name = "attemptAutonomousLaneChange"
  /\ GetLaneCount(road) = 2
  /\ car[lastOp.car].state = "DRIVING"
  /\ car[lastOp.car].laneIndex = InitLaneIndex(lastOp.car)
  /\ car[lastOp.car].laneIndex + Val(returned).direction \in {0, 1}
  /\ AttemptRefused(lastOp.car, Val(returned).direction)

----------------------------------------------------------------------------
(* Car.updateAutonomousLaneChange called car by car, between Lane.update calls *)

\* tick sizes: one that reaches the shortest interval at once, one that needs three calls
TickSizes == {1, 3}

InitTimer ==
  \E intervalOf \in [Cars -> IntervalChoices] :
    Setup(TRUE, [c \in Cars |-> IF c = 3 THEN 1 ELSE InitLaneIndex(c)], intervalOf)

\* car.updateAutonomousLaneChange(dt); attemptLog counts the attempt the call
\* makes, or adds dt to the tick time the car has seen since its last attempt
TimerCall(c, dt, direction, interval) ==
  /\ frame.phase = "idle"
  /\ calls < MaxCalls
  /\ calls' = calls + 1
  /\ Becomes(UpdateAutonomousLaneChange(World(car, lane), road, c, dt, direction, interval))
  /\ attemptLog' = [attemptLog EXCEPT ![c] =
                      IF AttemptDue(car[c], dt)
                      THEN [attempts |-> @.attempts + 1, elapsed |-> 0]
                      ELSE [@ EXCEPT !.elapsed = @ + dt]]
  /\ lastOp' = [name |-> "updateAutonomousLaneChange", car |-> c, lane |-> NoLane, dt |-> dt]
  /\ UNCHANGED <<road, frame, returned, integrated, others>>

\* the two random draws are made only by a call that attempts
TimerTick(c, dt) ==
  IF AttemptDue(car[c], dt)
  THEN \E direction \in {-1, 1}, interval \in IntervalChoices : TimerCall(c, dt, direction, interval)
  ELSE TimerCall(c, dt, 1, IntervalMin)

NextTimer ==
  \/ \E c \in Cars, dt \in TickSizes : TimerTick(c, dt)
  \/ \E l \in LaneIds, dt \in DtSet : Update(l, dt)

SpecTimer == InitTimer /\ [][NextTimer]_vars

\* C15: a vehicle attempts an autonomous lane change only when its own timer
\* plus the tick has reached its current interval, which lies in [3,8]; the
\* call that attempts resets the timer to 0 and draws a new interval in [3,8];
\* a second attempt comes after at least 3 seconds of tick time since the
\* previous one; no call changes the timer or interval of another vehicle.
C15_AttemptsFollowOwnTimer ==
  [][/\ \A d \in Cars : car[d].nextLaneChangeTime >= 3 /\ car[d].nextLaneChangeTime <= 8
     /\ \A d \in Cars :
          lastOp'.name # "updateAutonomousLaneChange" \/ lastOp'.car # d =>
            /\ car'[d].laneChangeTimer = car[d].laneChangeTimer
            /\ car'[d].nextLaneChangeTime = car[d].nextLaneChangeTime
            /\ attemptLog'[d] = attemptLog[d]
     /\ lastOp'.name = "updateAutonomousLaneChange" =>
          LET c == lastOp'.car
              dt == lastOp'.dt
              attempted == attemptLog'[c].attempts > attemptLog[c].attempts
          IN /\ (~Merging(car[c]) /\ Merging(car'[c])) => attempted
             /\ attempted =>
                  /\ car[c].laneChangeTimer + dt >= car[c].nextLaneChangeTime
                  /\ car'[c].laneChangeTimer = 0
                  /\ car'[c].nextLaneChangeTime >= 3 /\ car'[c].nextLaneChangeTime <= 8
                  /\ attemptLog[c].attempts > 0 => attemptLog[c].elapsed + dt >= 3
             /\ ~attempted =>
                  /\ car'[c].nextLaneChangeTime = car[c].nextLaneChangeTime
                  /\ car'[c].laneChangeTimer \in {car[c].laneChangeTimer, car[c].laneChangeTimer + dt}]_vars

\* a vehicle has just made its second attempt while another vehicle, ticked in
\* between, has made none
C15_Witness ==
  /\ lastOp.name = "updateAutonomousLaneChange"
  /\ attemptLog[lastOp.car].attempts = 2
  /\ attemptLog[lastOp.car].elapsed = 0
  /\ car[lastOp.car].laneChangeTimer = 0
  /\ \E d \in Cars \ {lastOp.car} :
       attemptLog[d].attempts = 0 /\ car[d].laneChangeTimer > 0

----------------------------------------------------------------------------
(* Properties of a transition that retains the speed *)

\* gaps and speed differences handed to computeAcceleration
GapInputs == {0, 1, 7, Infinity}
DeltaSpeedInputs == {-5, 0, 5}

\* the speed a transition holds, fixed when startLaneChange created it
HeldSpeed(cr) == Val(Val(cr.laneChange).desiredSpeed)

\* C16: while a transition with retainSpeed is active computeAcceleration
\* returns 0 for every gap and deltaSpeed, and after every integrate the
\* vehicle's speed is the speed it had when startLaneChange was called,
\* whatever the leader does and whatever setSpeed calls come in between.
C16_RetainedSpeedIsHeld ==
  [][\A c \in Cars :
       /\ RetainSpeed(car[c]) =>
            \A gap \in GapInputs, deltaSpeed \in DeltaSpeedInputs :
              ComputeAcceleration(car[c], gap, deltaSpeed) = 0
       /\ (~Merging(car[c]) /\ RetainSpeed(car'[c])) =>
            Val(car'[c].laneChange).desiredSpeed = Some(car[c].speed)
       /\ (RetainSpeed(car[c]) /\ Merging(car'[c])) =>
            /\ RetainSpeed(car'[c])
            /\ Val(car'[c].laneChange).desiredSpeed = Val(car[c].laneChange).desiredSpeed
       /\ (RetainSpeed(car[c]) /\ \E l \in LaneIds : UpdateStepOn(l) /\ InLane(c, l)) =>
            /\ car'[c].speed = HeldSpeed(car[c])
            /\ car'[c].acceleration = 0]_vars

\* a lane tick has just integrated a vehicle in a retainSpeed transition that
\* follows a slower leader: it moved on at the held speed
C16_Witness ==
  /\ lastOp.name = "update"
  /\ \E c \in Members(lastOp.lane) :
       /\ RetainSpeed(car[c])
       /\ car[c].speed = HeldSpeed(car[c])
       /\ car[c].speed > 0
       /\ car[c].position # Val(car[c].laneChange).startPosition
       /\ car[c].acceleration = 0
       /\ \E d \in Members(lastOp.lane) \ {c} : car[d].speed < car[c].speed

----------------------------------------------------------------------------
(* The animation loop after one direct startLaneChange call *)

\* targetDistance arguments shorter and longer than the lanes; frame times
ProgressDistances == {3, 20}
ProgressDts == {1, 4}

\* car.startLaneChange(..., targetDistance, duration, retainSpeed) before the first frame
LongStart(targetLane, targetDistance, retainSpeed) ==
  /\ calls = 0
  /\ ManualStart(ControlledCar, targetLane, targetDistance, retainSpeed)

NextProgress ==
  \/ \E dt \in ProgressDts : FrameBegin(dt)
  \/ FrameLane
  \/ FrameCarLaneChange
  \/ \E direction \in {-1, 1}, interval \in IntervalChoices : FrameCarAutonomous(direction, interval)
  \/ \E t \in LaneIds, d \in ProgressDistances, r \in BOOLEAN : LongStart(t, d, r)

SpecProgress == Init /\ [][NextProgress]_vars

\* C17: during a transition the progress lies in [0,1] and does not decrease
\* from one updateLaneChange call to the next, for every targetDistance given
\* to startLaneChange and every tick size.
C17_ProgressNeverDecreases ==
  [][\A c \in Cars :
       (lastOp'.name = "updateLaneChange" /\ lastOp'.car = c
          /\ Merging(car[c]) /\ Merging(car'[c])) =>
         /\ Val(car'[c].laneChange).progress >= 0
         /\ Val(car'[c].laneChange).progress <= ProgressOne
         /\ Val(car'[c].laneChange).progress >= Val(car[c].laneChange).progress]_vars

----------------------------------------------------------------------------
(* The animation loop running for ever: requestAnimationFrame re-arms animate
   at the start of every frame *)

\* a frame begins; frames are not counted
LoopBegin(dt) ==
  /\ frame.phase = "idle"
  /\ frame' = [frame EXCEPT !.phase = "lanes", !.i = 0, !.dt = dt]
  /\ lastOp' = [name |-> "animate", car |-> NoCar, lane |-> NoLane, dt |-> dt]
  /\ integrated' = [c \in Cars |-> 0]
  /\ UNCHANGED <<car, lane, road, calls, returned, attemptLog, others>>

\* one step of the frame loop, every frame with dt = 1 > 0 and every interval
\* drawn the shortest
LoopStep ==
  \/ LoopBegin(1)
  \/ FrameLane
  \/ FrameCarLaneChange
  \/ \E direction \in {-1, 1} : FrameCarAutonomous(direction, IntervalMin)

\* a road of one lane; the controlled car is constructed at rest or moving
InitLoop ==
  \E v \in {0, InitSpeed(ControlledCar)} :
    LET made == NewRoad(<<1>>, [l \in LaneIds |-> NewLane(LaneShapes(l), TRUE)])
        lanes == made.lane
        rd == made.road
        built == [c \in Cars |-> NewCar(c, rd, lanes, 0, IntervalMin)]
        cars == [built EXCEPT ![ControlledCar].speed = v]
        w == PlaceCars(World(cars, lanes), rd, Cars)
    IN /\ car = w.car
       /\ lane = w.lane
       /\ road = rd
       /\ frame = [phase |-> "idle", i |-> 0, dt |-> 0, n |-> 0]
       /\ calls = 0
       /\ lastOp = [name |-> "setup", car |-> NoCar, lane |-> NoLane, dt |-> 0]
       /\ returned = Null
       /\ attemptLog = NoAttempts
       /\ integrated = [c \in Cars |-> 0]
       /\ trajectory = Null
       /\ list = Null
       /\ sim = Null

NextLoop ==
  \/ LoopStep
  \/ \E d \in ProgressDistances, r \in BOOLEAN : LongStart(1, d, r)

\* what FrameLane does to the position in the frame
LanePhaseStep ==
  /\ frame.phase = "lanes"
  /\ frame' = IF frame.i + 1 >= GetLaneCount(road)
              THEN [frame EXCEPT !.phase = "cars", !.i = 1]
              ELSE [frame EXCEPT !.i = @ + 1]

\* animate runs to its end and is called again: a frame that can begin does,
\* and each loop of a frame that has begun goes on to its next call
LoopFairness ==
  /\ WF_vars(LoopBegin(1))
  /\ WF_frame(LanePhaseStep)
  /\ WF_vars(FrameCarLaneChange)
  /\ WF_vars(\E direction \in {-1, 1} : FrameCarAutonomous(direction, IntervalMin))

SpecLoop == InitLoop /\ [][NextLoop]_vars /\ LoopFairness

\* C18: every lane change that starts eventually completes: a MERGING vehicle
\* is eventually DRIVING again with its transition cleared, frames with dt > 0
\* following one another for ever.
C18_LaneChangeCompletes ==
  \A c \in Cars :
    Merging(car[c]) ~> (car[c].state = "DRIVING" /\ ~Merging(car[c]))

----------------------------------------------------------------------------
(* Road.addLane and Road.removeLane on the scene's road *)

\* index arguments: before the array, inside it, at its end and beyond it
RoadIndexInputs == {-1, 0, 1, 3}

\* the lanes of the road
InRoad(l) == l \in SeqToSet(road.lanes)

RoadCall(name, l, index, value, result) ==
  /\ frame.phase = "idle"
  /\ calls < MaxCalls
  /\ calls' = calls + 1
  /\ road' = result.road
  /\ lane' = result.lane
  /\ lastOp' = [name |-> name, car |-> NoCar, lane |-> l, dt |-> 0]
  /\ returned' = Some([index |-> index, value |-> value])
  /\ UNCHANGED <<car, frame, attemptLog, integrated, others>>

\* road.addLane(l, index) for a lane that is not in the road
AddLane(l, index) ==
  /\ ~InRoad(l)
  /\ RoadCall("addLane", l, index, l, RoadAddLane(road, lane, l, index))

\* road.removeLane(index)
RemoveLane(index) ==
  /\ index \in RoadIndexInputs
  /\ RoadCall("removeLane", GetLane(road, index), index, RemovedLane(road, index),
              RoadRemoveLane(road, lane, index))

\* road.getLane(index)
GetLaneQuery(index) ==
  /\ index \in RoadIndexInputs
  /\ RoadCall("getLane", NoLane, index, GetLane(road, index), RoadAndLanes(road, lane))

\* road.setCurrentLaneByIndex(index)
SetCurrentLane(index) ==
  /\ index \in RoadIndexInputs
  /\ RoadCall("setCurrentLaneByIndex", NoLane, index,
              GetLane(SetCurrentLaneByIndex(road, index), index),
              RoadAndLanes(SetCurrentLaneByIndex(road, index), lane))

NextRoad ==
  \/ \E l \in LaneIds, index \in RoadIndexInputs : AddLane(l, index)
  \/ \E index \in RoadIndexInputs : RemoveLane(index)
  \/ \E index \in RoadIndexInputs : GetLaneQuery(index)
  \/ \E index \in RoadIndexInputs : SetCurrentLane(index)

SpecRoad == InitFrame /\ [][NextRoad]_vars

\* the indices stored in the road's lanes are 0..N-1 and lane i holds index i
Reindexed ==
  LET n == GetLaneCount(road)
  IN /\ {lane[l].laneIndex : l \in SeqToSet(road.lanes)} = {Some(i) : i \in 0..(n - 1)}
     /\ Cardinality(SeqToSet(road.lanes)) = n
     /\ \A i \in 0..(n - 1) :
          /\ GetLane(road, i) # NoLane
          /\ lane[GetLane(road, i)].laneIndex = Some(i)

\* C19: after any sequence of addLane and removeLane calls the indices stored
\* in the road's lanes are exactly 0..N-1 without gap or duplicate, lane i of
\* the list has laneIndex i and getLane(i) returns it, and getLaneCount() is N:
\* one more after an addLane, one less after a removeLane that removed a lane.
C19_LanesReindexed ==
  [][/\ Reindexed'
     /\ lastOp'.name = "addLane" =>
          /\ GetLaneCount(road') = GetLaneCount(road) + 1
          /\ SeqToSet(road'.lanes) = SeqToSet(road.lanes) \cup {lastOp'.lane}
     /\ lastOp'.name = "removeLane" =>
          IF lastOp'.lane = NoLane
          THEN road' = road /\ lane' = lane
          ELSE /\ GetLaneCount(road') = GetLaneCount(road) - 1
               /\ SeqToSet(road'.lanes) = SeqToSet(road.lanes) \ {lastOp'.lane}]_vars

\* a lane has just been inserted in front of the lane that was first: the
\* lane that was at index 0 now stores index 1
C19_Witness ==
  /\ lastOp.name = "addLane"
  /\ GetLaneCount(road) = 2
  /\ GetLane(road, 0) = lastOp.lane
  /\ lane[GetLane(road, 0)].laneIndex = Some(0)
  /\ lane[GetLane(road, 1)].laneIndex = Some(1)

\* C20: after addLane or removeLane has shifted lanes, the laneIndex stored in
\* every vehicle is the index in the road of the lane that holds the vehicle:
\* road.getLane(car.laneIndex) is that lane.
C20_VehicleIndexFollowsLane ==
  \A c \in Cars : \A l \in LaneIds :
    (InLane(c, l) /\ InRoad(l)) => GetLane(road, car[c].laneIndex) = l

\* the index is not one of 0..N-1, N the number of lanes of the road
OutsideRoad(index) == index < 0 \/ index >= Len(road.lanes)

\* C21: getLane(index) returns null for every index outside 0..N-1, negative
\* ones included; removeLane(index) with such an index returns null and leaves
\* the lane list, every lane's laneIndex and the current-lane index unchanged.
C21_OutOfRangeIndexIsNull ==
  [][/\ (lastOp'.name = "getLane" /\ OutsideRoad(Val(returned').index)) =>
          Val(returned').value = NoLane
     /\ (lastOp'.name = "removeLane" /\ OutsideRoad(Val(returned').index)) =>
          /\ Val(returned').value = NoLane
          /\ road'.lanes = road.lanes
          /\ road'.currentLaneIndex = road.currentLaneIndex
          /\ \A l \in LaneIds : lane'[l].laneIndex = lane[l].laneIndex]_vars

\* removeLane(-1) has just returned null on a road of two lanes whose current
\* lane is the second
C21_Witness ==
  /\ lastOp.name = "removeLane"
  /\ Val(returned).index = -1
  /\ Val(returned).value = NoLane
  /\ GetLaneCount(road) = 2
  /\ road.currentLaneIndex = 1

----------------------------------------------------------------------------
(* The parameter setters of the controlled car *)

SetterInputs == {Num(-1), Num(0), Num(3), NaNValue, Undefined}
DimensionInputs == {Num(0), Num(3), Undefined}

\* a setter call on car c that returned normally
SetterCall(name, c, args, result) ==
  /\ frame.phase = "idle"
  /\ calls < MaxCalls
  /\ calls' = calls + 1
  /\ car' = [car EXCEPT ![c] = result]
  /\ lastOp' = [name |-> name, car |-> c, lane |-> NoLane, dt |-> 0]
  /\ returned' = Some([args |-> args, threw |-> FALSE])
  /\ UNCHANGED <<lane, road, frame, attemptLog, integrated, others>>

SetMaxAcceleration(c, x) ==
  /\ x \in SetterInputs
  /\ SetterCall("setMaxAcceleration", c, <<x>>, SetMaxAccelerationOf(car[c], x))

SetComfortableDeceleration(c, x) ==
  /\ x \in SetterInputs
  /\ SetterCall("setComfortableDeceleration", c, <<x>>, SetComfortableDecelerationOf(car[c], x))

SetSafeTimeHeadway(c, x) ==
  /\ x \in SetterInputs
  /\ SetterCall("setSafeTimeHeadway", c, <<x>>, SetSafeTimeHeadwayOf(car[c], x))

SetDistanceGap(c, x) ==
  /\ x \in SetterInputs
  /\ SetterCall("setDistanceGap", c, <<x>>, SetDistanceGapOf(car[c], x))

SetDimensions(c, length, width, height) ==
  /\ length \in DimensionInputs
  /\ SetterCall("setDimensions", c, <<length, width, height>>,
                SetDimensionsOf(car[c], length, width, height))

NextSetters ==
  \/ \E x \in SetterInputs : SetMaxAcceleration(ControlledCar, x)
  \/ \E x \in SetterInputs : SetComfortableDeceleration(ControlledCar, x)
  \/ \E x \in SetterInputs : SetSafeTimeHeadway(ControlledCar, x)
  \/ \E x \in SetterInputs : SetDistanceGap(ControlledCar, x)
  \/ \E l \in DimensionInputs, w \in DimensionInputs, h \in DimensionInputs :
       SetDimensions(ControlledCar, l, w, h)

SpecSetters == Init /\ [][NextSetters]_vars

\* the argument is not a number, or is NaN, or is <= 0
NotPositive(x) == x.type # "number" \/ x.nan \/ x.value <= 0

\* the argument is a number >= 0
InDomainFromZero(x) == x.type = "number" /\ ~x.nan /\ x.value >= 0

\* C22: setMaxAcceleration and setComfortableDeceleration leave the vehicle
\* unchanged and raise nothing when given a value <= 0 or a non-number; in
\* setDimensions each of length, width and height that is <= 0 or a non-number
\* keeps its stored value, each valid one is stored whatever the others are,
\* and nothing is raised.
C22_InvalidValuesIgnored ==
  [][LET c == lastOp'.car
         args == Val(returned').args
     IN /\ (lastOp'.name \in {"setMaxAcceleration", "setComfortableDeceleration"}
              /\ NotPositive(args[1])) =>
             car'[c] = car[c] /\ ~Val(returned').threw
        /\ lastOp'.name = "setDimensions" =>
             /\ ~Val(returned').threw
             /\ car'[c].length = IF NotPositive(args[1]) THEN car[c].length ELSE args[1].value
             /\ car'[c].width = IF NotPositive(args[2]) THEN car[c].width ELSE args[2].value
             /\ car'[c].height = IF NotPositive(args[3]) THEN car[c].height ELSE args[3].value]_vars

\* setDimensions has just been given an invalid length with a valid width: the
\* width was stored and the length, set by an earlier call, was kept
C22_Witness ==
  /\ lastOp.name = "setDimensions"
  /\ NotPositive(Val(returned).args[1])
  /\ ~NotPositive(Val(returned).args[2])
  /\ car[lastOp.car].width = Val(returned).args[2].value
  /\ car[lastOp.car].width # NewCar(lastOp.car, road, lane, 0, IntervalMin).width
  /\ car[lastOp.car].length # NewCar(lastOp.car, road, lane, 0, IntervalMin).length

\* C23: setSafeTimeHeadway and setDistanceGap store every number >= 0, 0
\* included, and ignore every other argument.
C23_DomainValuesAccepted ==
  [][LET c == lastOp'.car
         x == Val(returned').args[1]
     IN /\ lastOp'.name = "setSafeTimeHeadway" =>
             car'[c].safeTimeHeadway = IF InDomainFromZero(x) THEN x.value
                                       ELSE car[c].safeTimeHeadway
        /\ lastOp'.name = "setDistanceGap" =>
             car'[c].distanceGap = IF InDomainFromZero(x) THEN x.value
                                   ELSE car[c].distanceGap]_vars

\* ---------------------------------------------------------------------------
\* Construction of a car against the road

\* the explicit path handed to the constructor; NoLane stands for none
PathInputs == {NoLane} \cup LaneIds

\* new Car({ road, laneIndex, path }) for the parameters of car c
Construct(c, roadGiven, laneIndex, pathArg) ==
  /\ frame.phase = "idle"
  /\ calls < MaxCalls
  /\ calls' = calls + 1
  /\ lastOp' = [name |-> "newCar", car |-> c, lane |-> NoLane, dt |-> 0]
  /\ returned' = Some([roadGiven |-> roadGiven, laneIndex |-> laneIndex,
                       path |-> pathArg,
                       outcome |-> CarConstructor(c, road, lane, roadGiven, laneIndex,
                                                  pathArg, IntervalMin)])
  /\ UNCHANGED <<car, lane, road, frame, attemptLog, integrated, others>>

NextConstruct ==
  \/ \E l \in LaneIds, index \in RoadIndexInputs : AddLane(l, index)
  \/ \E index \in RoadIndexInputs : RemoveLane(index)
  \/ \E roadGiven \in BOOLEAN, laneIndex \in RoadIndexInputs, pathArg \in PathInputs :
        Construct(ControlledCar, roadGiven, laneIndex, pathArg)

SpecConstruct == InitFrame /\ [][NextConstruct]_vars

\* no path can be resolved from the constructor's arguments
Unresolvable(args) ==
  /\ args.path = NoLane
  /\ \/ ~args.roadGiven
     \/ args.laneIndex < 0
     \/ args.laneIndex >= Len(road.lanes)

\* C24: constructing a car throws and creates no car whenever no explicit path
\* is given and either no road is given or the road has no lane at laneIndex;
\* otherwise construction succeeds and the new car is DRIVING with no
\* transition.
C24_ConstructionNeedsAPath ==
  [][lastOp'.name = "newCar" =>
       LET args == Val(returned')
           outcome == args.outcome
       IN IF Unresolvable(args)
          THEN outcome.threw /\ outcome.created = Null
          ELSE /\ ~outcome.threw
               /\ outcome.created # Null
               /\ Val(outcome.created).state = "DRIVING"
               /\ Val(outcome.created).laneChange = Null]_vars

C24_Witness ==
  /\ lastOp.name = "newCar"
  /\ returned # Null
  /\ Val(returned).roadGiven
  /\ Val(returned).path = NoLane
  /\ Val(returned).laneIndex = 1
  /\ GetLaneCount(road) = 1
  /\ Val(returned).outcome.threw

\* ---------------------------------------------------------------------------
\* Lane ticks under the smallest parameter values and degenerate geometry

MinGapInputs == {0, 1}
DegenerateLengths == {0, 4}

IsFiniteNumber(x) == x \notin {Infinity, NegInfinity, NaN}

\* the car's acceleration, speed and position are finite numbers
FiniteCar(cr) ==
  /\ IsFiniteNumber(cr.acceleration)
  /\ IsFiniteNumber(cr.speed)
  /\ IsFiniteNumber(cr.position)

AllFinite == \A c \in Cars : FiniteCar(car[c])

\* the minGap slider of the GUI: car.minGap = Math.max(0, value)
SetMinGap(c, value) ==
  /\ ApiCall("setMinGap", c, NoLane, 0)
  /\ car' = [car EXCEPT ![c].minGap = Max(0, value)]
  /\ UNCHANGED lane

\* the run is followed up to the first value that is not finite
NextDivision ==
  \/ \E c \in Cars, value \in MinGapInputs : AllFinite /\ SetMinGap(c, value)
  \/ \E l \in LaneIds, k \in 1..2, len \in DegenerateLengths :
        AllFinite /\ ShapeChange(l, k, len)
  \/ \E l \in LaneIds, dt \in DtSet : AllFinite /\ Update(l, dt)

SpecDivision == Init /\ [][NextDivision]_vars

\* C25: with minGap >= 0, distanceGap >= 0 and safeTimeHeadway >= 0, in every
\* reachable lane state (overlapping cars whose gap is clamped to 0, a lane
\* whose recomputed length is 0), Lane.update divides by no zero and takes no
\* modulo by zero: it leaves every car's acceleration, speed and position finite.
C25_UpdateStaysFinite ==
  [][lastOp'.name = "update" => \A c \in Cars : FiniteCar(car'[c])]_vars

\* C26: after every Lane.update(dt) the lane's totalLength is the current sum
\* of its segments' lengths and every member car's curveLength is that
\* totalLength, also when a segment's length changed since the previous tick
\* and when the lane's length was 0 before the call.
C26_LengthInSyncAfterUpdate ==
  [][lastOp'.name = "update" =>
       LET l == lastOp'.lane
       IN /\ lane'[l].totalLength = SumSeq(lane'[l].shapes)
          /\ \A c \in SeqToSet(lane'[l].carNodes) :
               car'[c].curveLength = lane'[l].totalLength]_vars

\* ---------------------------------------------------------------------------
\* Lane membership, with a lane that was built from segments of length 0

ZeroShapes == <<0, 0>>

\* the scene of Init, or the same scene with every car on the first lane and
\* a second lane of length 0
InitMembership ==
  \/ Init
  \/ LET made == NewRoad(<<1, 2>>, [l \in LaneIds |->
                   NewLane(IF l = 2 THEN ZeroShapes ELSE LaneShapes(l), TRUE)])
         cars == [c \in Cars |-> NewCar(c, made.road, made.lane, 0, IntervalMin)]
         w == PlaceCars(World(cars, made.lane), made.road, Cars)
     IN /\ car = w.car
        /\ lane = w.lane
        /\ road = made.road
        /\ frame = [phase |-> "idle", i |-> 0, dt |-> 0, n |-> 0]
        /\ calls = 0
        /\ lastOp = [name |-> "setup", car |-> NoCar, lane |-> NoLane, dt |-> 0]
        /\ returned = Null
        /\ attemptLog = NoAttempts
        /\ integrated = [c \in Cars |-> 0]
        /\ trajectory = Null
        /\ list = Null
        /\ sim = Null

\* a call of lane l's addCar or removeCar with its arguments
MemberCall(name, c, l, position, w) ==
  /\ frame.phase = "idle"
  /\ calls < MaxCalls
  /\ calls' = calls + 1
  /\ lastOp' = [name |-> name, car |-> c, lane |-> l, dt |-> 0]
  /\ returned' = Some([position |-> position])
  /\ Becomes(w)
  /\ UNCHANGED <<road, frame, attemptLog, integrated, others>>

\* lane.addCar(car, p) for a car that is in no lane
AddCarAt(l, c, p) ==
  /\ Outside(c)
  /\ MemberCall("addCar", c, l, p, LaneAddCar(World(car, lane), l, c, p))

\* lane.removeCar(car), for a member or not
RemoveCarOf(l, c) ==
  /\ c \in Cars
  /\ MemberCall("removeCar", c, l, 0, LaneRemoveCar(World(car, lane), l, c))

NextMembership ==
  \/ \E l \in LaneIds, c \in Cars, p \in PositionInputs : AddCarAt(l, c, p)
  \/ \E l \in LaneIds, c \in Cars : RemoveCarOf(l, c)
  \/ \E l \in LaneIds, dt \in DtSet : Update(l, dt)

SpecMembership == InitMembership /\ [][NextMembership]_vars

\* lane l after the call: sorted by position, with cyclic links
Resorted(l) == Sorted(lane'[l].carNodes, car') /\ CyclicLinks(lane'[l])

\* removeCar took car c out of lane l and left the other members
RemovedFrom(l, c) ==
  /\ SeqToSet(lane'[l].carNodes) = Members(l) \ {c}
  /\ Resorted(l)

\* removeCar of a car that is not a member changes nothing
NonMemberRemoval(l, c) ==
  (lastOp'.name = "removeCar" /\ ~InLane(c, l)) => (lane' = lane /\ car' = car)

\* C27 as stated: addCar(car, p) makes the car a member at position
\* p mod totalLength and re-sorts; removeCar removes and re-sorts; removeCar
\* of a non-member leaves the collection and the links unchanged.
C27_AddAndRemove ==
  [][LET l == lastOp'.lane
         c == lastOp'.car
     IN /\ lastOp'.name = "addCar" =>
             /\ SeqToSet(lane'[l].carNodes) = Members(l) \cup {c}
             /\ car'[c].position = WrapPosition(Val(returned').position, lane[l].totalLength)
             /\ Resorted(l)
        /\ (lastOp'.name = "removeCar" /\ InLane(c, l)) => RemovedFrom(l, c)
        /\ NonMemberRemoval(l, c)]_vars

\* C27 amended: on a lane whose totalLength is not 0, addCar(car, p) makes
\* the car a member at position p mod totalLength and re-sorts; on a lane whose
\* totalLength is 0 it adds nothing and changes nothing; removeCar removes and
\* re-sorts; removeCar of a non-member leaves the collection and the links
\* unchanged.
C27_AddAndRemoveOnLane ==
  [][LET l == lastOp'.lane
         c == lastOp'.car
     IN /\ (lastOp'.name = "addCar" /\ lane[l].totalLength # 0) =>
             /\ SeqToSet(lane'[l].carNodes) = Members(l) \cup {c}
             /\ car'[c].position = EuclideanModulo(Val(returned').position, lane[l].totalLength)
             /\ Resorted(l)
        /\ (lastOp'.name = "addCar" /\ lane[l].totalLength = 0) =>
             (lane' = lane /\ car' = car)
        /\ (lastOp'.name = "removeCar" /\ InLane(c, l)) => RemovedFrom(l, c)
        /\ NonMemberRemoval(l, c)]_vars

\* an addCar with a negative position that put the new car behind a member
C27_Witness ==
  /\ lastOp.name = "addCar"
  /\ returned = Some([position |-> -1])
  /\ InLane(lastOp.car, lastOp.lane)
  /\ car[lastOp.car].position = lane[lastOp.lane].totalLength - 1
  /\ lane[lastOp.lane].carNodes[1] # lastOp.car

\* ---------------------------------------------------------------------------
\* A car alone on its lane

LoneCar == 3
LoneMaxSpeeds == {3, 9}
LoneSpeeds == {0, 8}

NextLone ==
  \/ \E s \in LoneMaxSpeeds : SetMaxSpeed(LoneCar, s)
  \/ \E s \in LoneSpeeds : SetSpeed(LoneCar, s)
  \/ \E l \in LaneIds, dt \in DtSet : Update(l, dt)

SpecLone == Init /\ [][NextLone]_vars

\* the step is a tick of lane l, whose only member is the DRIVING car c
LoneTick(l, c) ==
  /\ lastOp'.name = "update"
  /\ lastOp'.lane = l
  /\ lastOp'.dt > 0
  /\ lane[l].carNodes = <<c>>
  /\ car[c].state = "DRIVING"

BumperGap(cars, c, n, totalLength) ==
  EuclideanModulo(cars[n].position - cars[c].position, totalLength)
    - HalfLength(cars[c]) - HalfLength(cars[n])

\* the same distance after a tick of dt, in which each car has advanced by
\* its new speed times dt; negative when c overlaps n or has passed through it
BumperGapAfter(c, n, totalLength, dt) ==
  BumperGap(car, c, n, totalLength) + (car'[n].speed - car'[c].speed) * dt

\* C29: for a car and its leader on the same lane, with positive minGap, a
\* bumper-to-bumper gap that is non-negative before a Lane.update tick is
\* non-negative after it: the follower neither overlaps its leader nor passes
\* through it.
C29_NoPassingThrough ==
  [][\A l \in LaneIds :
       (lastOp'.name = "update" /\ lastOp'.lane = l /\ lane[l].totalLength # 0
          /\ lane'[l].totalLength = lane[l].totalLength) =>
         \A c \in Members(l) :
           LET n == lane'[l].next[c]
           IN (/\ n # c
               /\ car[c].minGap > 0
               /\ BumperGap(car, c, n, lane[l].totalLength) >= 0)
                => BumperGapAfter(c, n, lane[l].totalLength, lastOp'.dt) >= 0]_vars

\* ---------------------------------------------------------------------------
\* Car.computeAcceleration as a function of the car's parameters and its inputs

LargeMinGap == 4
AccelerationMinGaps == {0, LargeMinGap}

\* car.computeAcceleration(gap, deltaSpeed) on a DRIVING car
ComputeAccelerationCall(c, gap, deltaSpeed) ==
  /\ car[c].state = "DRIVING"
  /\ frame.phase = "idle"
  /\ calls < MaxCalls
  /\ calls' = calls + 1
  /\ lastOp' = [name |-> "computeAcceleration", car |-> c, lane |-> NoLane, dt |-> 0]
  /\ returned' = Some([gap |-> gap, deltaSpeed |-> deltaSpeed,
                       result |-> ComputeAcceleration(car[c], gap, deltaSpeed)])
  /\ UNCHANGED <<car, lane, road, frame, attemptLog, integrated, others>>

NextAcceleration ==
  \/ \E s \in SpeedInputs : SetSpeed(ControlledCar, s)
  \/ \E d \in SpeedDeltas : AdjustSpeed(ControlledCar, d)
  \/ \E x \in SetterInputs : SetSafeTimeHeadway(ControlledCar, x)
  \/ \E x \in SetterInputs : SetDistanceGap(ControlledCar, x)
  \/ \E g \in AccelerationMinGaps : SetMinGap(ControlledCar, g)
  \/ \E gap \in GapInputs, deltaSpeed \in DeltaSpeedInputs :
        ComputeAccelerationCall(ControlledCar, gap, deltaSpeed)

SpecAcceleration == Init /\ [][NextAcceleration]_vars

\* the desired gap without a braking term
DesiredGap(cr) == Max(cr.minGap, cr.distanceGap + cr.speed * cr.safeTimeHeadway)

\* maxAcceleration * (1 - (speed / maxSpeed)^4 - (DesiredGap / safeGap)^2) for a
\* finite gap, on the grid
AccelerationWithoutBraking(cr, gap) ==
  LET v4 == cr.speed * cr.speed * cr.speed * cr.speed
      vmax4 == cr.maxSpeed * cr.maxSpeed * cr.maxSpeed * cr.maxSpeed
      safeGap == Max(cr.minGap, gap)
      g2 == safeGap * safeGap
  IN (cr.maxAcceleration * (vmax4 * g2 - v4 * g2 - DesiredGap(cr) * DesiredGap(cr) * vmax4))
       \div (vmax4 * g2)

\* C30: for a DRIVING car, computeAcceleration(gap, deltaSpeed) changes no
\* field of the car, never returns more than maxAcceleration, returns a
\* non-negative value when there is no leader and speed <= maxSpeed, uses the
\* desired gap max(minGap, distanceGap + speed * safeTimeHeadway), and adds
\* the braking term only when deltaSpeed > 0.
C30_AccelerationLaw ==
  [][lastOp'.name = "computeAcceleration" =>
       LET c == lastOp'.car
           in == Val(returned')
           finiteGap == in.gap # Infinity /\ Max(car[c].minGap, in.gap) # 0
       IN /\ car' = car
          /\ in.result <= car[c].maxAcceleration
          /\ (in.gap = Infinity /\ car[c].speed <= car[c].maxSpeed) => in.result >= 0
          /\ (finiteGap /\ in.deltaSpeed <= 0) =>
               in.result = AccelerationWithoutBraking(car[c], in.gap)
          /\ (finiteGap /\ in.deltaSpeed > 0) =>
               in.result <= AccelerationWithoutBraking(car[c], in.gap)]_vars

\* a call behind a slower leader, in which the headway term decided the
\* desired gap and the braking term lowered the result
C30_Witness ==
  /\ lastOp.name = "computeAcceleration"
  /\ returned # Null
  /\ Val(returned).gap = 7
  /\ Val(returned).deltaSpeed > 0
  /\ car[lastOp.car].speed * car[lastOp.car].safeTimeHeadway > 0
  /\ DesiredGap(car[lastOp.car]) > car[lastOp.car].minGap
  /\ Val(returned).result < AccelerationWithoutBraking(car[lastOp.car], 7)

----------------------------------------------------------------------------
(* One frame integrates every car once *)

\* C31: in every frame each car is integrated exactly once: the lane loop has
\* integrated every car once when the car loop begins, no car twice before
\* that, and the car loop, which advances and attempts the lane changes,
\* integrates nothing, so a car that changes lanes in a frame is integrated
\* neither by both lanes nor by none.
C31_IntegratedOncePerFrame ==
  /\ frame.phase = "lanes" => \A c \in Cars : integrated[c] <= 1
  /\ frame.phase \in {"cars", "autonomous"} => \A c \in Cars : integrated[c] = 1
  /\ (frame.phase = "idle" /\ frame.n > 0) => \A c \in Cars : integrated[c] = 1

\* the frame after the one in which a car moved to the other lane has ended
C31_Witness ==
  /\ frame.phase = "idle"
  /\ frame.n >= 2
  /\ lastOp.name = "updateAutonomousLaneChange"
  /\ \E c \in {1, 2} :
       /\ car[c].laneIndex # InitLaneIndex(c)
       /\ car[c].state = "MERGING"
       /\ Val(car[c].laneChange).progress > 0
       /\ integrated[c] = 1

\* ---------------------------------------------------------------------------
\* The pose of a car: a point of its lane path, or of its lane-change curve

LaneWidth == 4
MinForward == 5
BezierParameters == {0, 50, ProgressOne}

\* lane.getPointAt(s / length) on the straight, parallel lanes of the highway scene
LanePointAt(l, s) == [x |-> s, z |-> (l - 1) * LaneWidth]

\* the control points Car.startLaneChange builds from the two lanes and offsets
CurvePoints(curve) ==
  LET startPoint == LanePointAt(curve.startLane, curve.startS)
      endPoint == LanePointAt(curve.endLane, curve.endS)
      dx == endPoint.x - startPoint.x
      dz == endPoint.z - startPoint.z
      span == ISqrt(dx * dx + dz * dz)
      forward == Max(MinForward, span \div 2)
  IN [startPoint |-> startPoint,
      control1 |-> [startPoint EXCEPT !.x = @ + forward],
      control2 |-> [endPoint EXCEPT !.x = @ - forward \div 2],
      endPoint |-> endPoint]

\* Car.evaluateBezier(curve, t), t a fraction of ProgressOne
EvaluateBezier(points, t) ==
  LET u == ProgressOne - t
      one == ProgressOne * ProgressOne * ProgressOne
      mix(a, b, c, d) == (u * u * u * a + 3 * u * u * t * b + 3 * u * t * t * c + t * t * t * d) \div one
  IN [x |-> mix(points.startPoint.x, points.control1.x, points.control2.x, points.endPoint.x),
      z |-> mix(points.startPoint.z, points.control1.z, points.control2.z, points.endPoint.z)]

\* the point of the lane path at the car's position
PathPoint(cr, lanes) ==
  LET u == IF cr.curveLength > 0 THEN EuclideanModulo(cr.position, cr.curveLength) ELSE 0
  IN LanePointAt(cr.path, IF cr.curveLength > 0
                          THEN (u * lanes[cr.path].totalLength) \div cr.curveLength ELSE 0)

\* a pose that follows the lane path even during a lane change
PosePoint_FromPath(cr, lanes) == PathPoint(cr, lanes)

\* the point Car.updatePose places the car at
PosePoint(cr, lanes) ==
  IF cr.laneChange # Null
  THEN EvaluateBezier(CurvePoints(Val(cr.laneChange).curve), Val(cr.laneChange).progress)
  ELSE PathPoint(cr, lanes)

\* car.updatePose(0)
UpdatePoseCall(c) ==
  /\ frame.phase = "idle"
  /\ calls < MaxCalls
  /\ calls' = calls + 1
  /\ lastOp' = [name |-> "updatePose", car |-> c, lane |-> NoLane, dt |-> 0]
  /\ car' = [car EXCEPT ![c] = UpdatePose(@, 0)]
  /\ returned' = Some([point |-> PosePoint(car[c], lane)])
  /\ UNCHANGED <<lane, road, frame, attemptLog, integrated, others>>

\* car.evaluateBezier(car.laneChange.curve, t)
EvaluateBezierCall(c, t) ==
  /\ car[c].laneChange # Null
  /\ frame.phase = "idle"
  /\ calls < MaxCalls
  /\ calls' = calls + 1
  /\ lastOp' = [name |-> "evaluateBezier", car |-> c, lane |-> NoLane, dt |-> t]
  /\ returned' = Some([point |-> EvaluateBezier(CurvePoints(Val(car[c].laneChange).curve), t)])
  /\ UNCHANGED <<car, lane, road, frame, attemptLog, integrated, others>>

NextPose ==
  \/ \E t \in LaneIds, d \in TargetDistanceInputs, r \in BOOLEAN : ManualStart(ControlledCar, t, d, r)
  \/ \E dt \in DtSet : AdvanceLaneChange(ControlledCar, dt)
  \/ \E l \in LaneIds, dt \in DtSet : Update(l, dt)
  \/ UpdatePoseCall(ControlledCar)
  \/ \E t \in BezierParameters : EvaluateBezierCall(ControlledCar, t)

SpecPose == Init /\ [][NextPose]_vars

\* the point of the lane-change curve the car's progress selects, weighted by the
\* cubic Bernstein polynomials
OnTransitionCurve(cr, point) ==
  LET st == Val(cr.laneChange)
      p == CurvePoints(st.curve)
      t == st.progress
      u == ProgressOne - t
      one == ProgressOne * ProgressOne * ProgressOne
  IN /\ point.x = (u * u * u * p.startPoint.x + 3 * u * u * t * p.control1.x
                     + 3 * u * t * t * p.control2.x + t * t * t * p.endPoint.x) \div one
     /\ point.z = (u * u * u * p.startPoint.z + 3 * u * u * t * p.control1.z
                     + 3 * u * t * t * p.control2.z + t * t * t * p.endPoint.z) \div one
     /\ (t = 0 => point = LanePointAt(st.curve.startLane, st.curve.startS))

\* C32: while a car holds a lane change (state MERGING), updatePose places it on
\* the Bezier curve of the lane change at the current progress, not on the lane
\* path; the curve at parameter 0 is the start point on the source lane and at
\* parameter 1 the end point on the target lane.
C32_PoseFollowsTransition ==
  /\ (lastOp.name = "updatePose" /\ car[lastOp.car].laneChange # Null)
       => /\ car[lastOp.car].state = "MERGING"
          /\ OnTransitionCurve(car[lastOp.car], Val(returned).point)
  /\ (lastOp.name = "evaluateBezier" /\ lastOp.dt = 0)
       => LET curve == Val(car[lastOp.car].laneChange).curve
          IN Val(returned).point = LanePointAt(curve.startLane, curve.startS)
  /\ (lastOp.name = "evaluateBezier" /\ lastOp.dt = ProgressOne)
       => LET curve == Val(car[lastOp.car].laneChange).curve
          IN Val(returned).point = LanePointAt(curve.endLane, curve.endS)

C32_Witness ==
  /\ lastOp.name = "updatePose"
  /\ car[lastOp.car].state = "MERGING"
  /\ Val(car[lastOp.car].laneChange).progress > 0
  /\ Val(returned).point # PathPoint(car[lastOp.car], lane)
  /\ Val(returned).point.z > 0 /\ Val(returned).point.z < LaneWidth

\* ---------------------------------------------------------------------------
\* Car.performAutonomousLaneChange on a road of open lanes

\* the open highway, with a second lane of the usual length or of length 0
InitPerform ==
  \E zero \in BOOLEAN :
    LET made == NewRoad(<<1, 2>>, [l \in LaneIds |->
                  NewLane(IF zero /\ l = 2 THEN ZeroShapes ELSE LaneShapes(l), FALSE)])
        cars == [c \in Cars |-> NewCar(c, made.road, made.lane, 0, IntervalMin)]
        w == PlaceCars(World(cars, made.lane), made.road, Cars)
    IN /\ car = w.car
       /\ lane = w.lane
       /\ road = made.road
       /\ frame = [phase |-> "idle", i |-> 0, dt |-> 0, n |-> 0]
       /\ calls = 0
       /\ lastOp = [name |-> "setup", car |-> NoCar, lane |-> NoLane, dt |-> 0]
       /\ returned = Null
       /\ attemptLog = NoAttempts
       /\ integrated = [c \in Cars |-> 0]
       /\ trajectory = Null
       /\ list = Null
       /\ sim = Null

\* targetDistance of Car.performAutonomousLaneChange
PerformTargetDistance(cr, targetLength) ==
  LET predictedDistance == Max(MinPredictedDistance,
                               cr.speed * LaneChangeDuration
                                 + (cr.maxAcceleration * LaneChangeDuration * LaneChangeDuration) \div 2)
  IN Min(predictedDistance, IF targetLength > 0 THEN targetLength \div 2 ELSE predictedDistance)

\* car.performAutonomousLaneChange(car.getLane(), targetLane, targetIndex,
\* targetPosition, progress, retainSpeed) on a DRIVING car of a lane, with the
\* target position attemptAutonomousLaneChange computes
PerformCall(c, direction, retainSpeed) ==
  LET currentLane == car[c].path
      targetIndex == car[c].laneIndex + direction
  IN /\ frame.phase = "idle"
     /\ calls < MaxCalls
     /\ car[c].state = "DRIVING"
     /\ currentLane # NoLane /\ InLane(c, currentLane) /\ lane[currentLane].totalLength > 0
     /\ targetIndex >= 0 /\ targetIndex < GetLaneCount(road)
     /\ LET targetLane == GetLane(road, targetIndex)
            targetPosition == AttemptTargetPosition(World(car, lane), c, targetLane)
        IN /\ Becomes(PerformAutonomousLaneChange(World(car, lane), road, c, currentLane,
                                                  targetLane, targetIndex, targetPosition,
                                                  retainSpeed))
           /\ returned' = Some([targetLane |-> targetLane, targetPosition |-> targetPosition,
                                targetDistance |-> PerformTargetDistance(car[c],
                                                     lane[targetLane].totalLength)])
           /\ lastOp' = [name |-> "performAutonomousLaneChange", car |-> c,
                         lane |-> targetLane, dt |-> 0]
     /\ calls' = calls + 1
     /\ UNCHANGED <<road, frame, attemptLog, integrated, others>>

NextPerform ==
  \/ \E c \in Cars, direction \in {-1, 1}, r \in BOOLEAN : PerformCall(c, direction, r)
  \/ \E l \in LaneIds, dt \in DtSet : Update(l, dt)
  \/ \E s \in SpeedInputs : SetSpeed(ControlledCar, s)

SpecPerform == InitPerform /\ [][NextPerform]_vars

\* the target lane is open and the lane change would end at or beyond its end
EndsBeyondTarget ==
  /\ lastOp'.name = "performAutonomousLaneChange"
  /\ ~lane[lastOp'.lane].closed
  /\ Val(returned').targetPosition + Val(returned').targetDistance
       >= lane[lastOp'.lane].totalLength

\* C33: performAutonomousLaneChange towards an open target lane, with
\* targetPosition + targetDistance at or beyond the target lane's length,
\* abandons the lane change before any mutation: the car stays in its current
\* lane's collection, is not added to the target lane, and its laneIndex, path,
\* position and state are unchanged.
C33_AbandonedBeforeMutation ==
  [][EndsBeyondTarget =>
       LET c == lastOp'.car
       IN /\ lane' = lane
          /\ InLane(c, car[c].path) /\ ~InLane(c, lastOp'.lane)
          /\ car'[c].laneIndex = car[c].laneIndex /\ car'[c].path = car[c].path
          /\ car'[c].position = car[c].position /\ car'[c].state = car[c].state]_vars

\* the same on target lanes of positive length
C33_AbandonedOnLane ==
  [][(EndsBeyondTarget /\ lane[lastOp'.lane].totalLength > 0) => (car' = car /\ lane' = lane)]_vars

C33_AbandonedReached ==
  /\ lastOp.name = "performAutonomousLaneChange"
  /\ lane[lastOp.lane].totalLength > 0
  /\ Val(returned).targetPosition + Val(returned).targetDistance >= lane[lastOp.lane].totalLength
  /\ car[lastOp.car].state = "DRIVING"

C33_StartedReached ==
  /\ lastOp.name = "performAutonomousLaneChange"
  /\ car[lastOp.car].state = "MERGING" /\ InLane(lastOp.car, lastOp.lane)

\* ---------------------------------------------------------------------------
\* LanePosition and Trajectory.  A trajectory record holds the LanePosition
\* objects made so far (an object is its index in positions), which of them are
\* current and next, and for every LanePosition and lane the number of
\* registerPosition calls minus the number of unregisterPosition calls the lane
\* has received for it.

MaxTrajectoryCalls == 5
DirectionInputs == {Num(0), Num(1), Num(-1), Num(2), NaNValue, Undefined}
DistanceInputs == {-1, 0, 2, 5}
StartPositions == {1, 9}

\* new LanePosition({ car, lane, position, isPrimary })
NewLanePosition(l, position, isPrimary) ==
  [lane |-> l, position |-> position, isPrimary |-> isPrimary, free |-> TRUE]

NoRegistrations == [l \in LaneIds |-> 0]

\* LanePosition.release
LanePositionRelease(t, id) ==
  LET lp == t.positions[id]
  IN IF lp.free \/ lp.lane = NoLane THEN t
     ELSE [t EXCEPT !.registers[id][lp.lane] = @ - 1, !.positions[id].free = TRUE]

\* LanePosition.acquire
LanePositionAcquire(t, id) ==
  LET lp == t.positions[id]
  IN IF lp.lane = NoLane \/ ~lp.free THEN t
     ELSE [t EXCEPT !.registers[id][lp.lane] = @ + 1, !.positions[id].free = FALSE]

\* LanePosition.setLane
LanePositionSetLane(t, id, l) ==
  IF l = t.positions[id].lane THEN t
  ELSE [LanePositionRelease(t, id) EXCEPT !.positions[id].lane = l]

\* LanePosition.setPosition: the position is wrapped to the lane's length,
\* floored at 1e-6, when the LanePosition has a lane
LanePositionSetPosition(t, lanes, id, position) ==
  LET lp == t.positions[id]
  IN IF lp.lane = NoLane THEN [t EXCEPT !.positions[id].position = position]
     ELSE [t EXCEPT !.positions[id].position =
             IF lanes[lp.lane].totalLength > 0
             THEN EuclideanModulo(position, lanes[lp.lane].totalLength) ELSE 0]

\* new Trajectory({ car, lanePosition }): the LanePosition given becomes the
\* current one, and a LanePosition without a lane becomes the next one
TrajectoryConstructor(lanePosition, registrations, hasRoad) ==
  [positions |-> <<[lanePosition EXCEPT !.isPrimary = TRUE, !.free = FALSE],
                   NewLanePosition(NoLane, 0, TRUE)>>,
   registers |-> <<registrations, NoRegistrations>>,
   current |-> 1, next |-> 2,
   transition |-> Null, isChanging |-> FALSE,
   hasRoad |-> hasRoad]

GetCurrentLane(t) == t.positions[t.current].lane

\* Trajectory.getCurrentLaneIndex: lane.laneIndex ?? 0
GetCurrentLaneIndex(t, lanes) ==
  IF GetCurrentLane(t) = NoLane \/ lanes[GetCurrentLane(t)].laneIndex = Null THEN 0
  ELSE Val(lanes[GetCurrentLane(t)].laneIndex)

\* Trajectory._incrementLanePosition
IncrementLanePosition(t, lanes, id, delta) ==
  IF t.positions[id].lane = NoLane THEN t
  ELSE LanePositionSetPosition(t, lanes, id, t.positions[id].position + delta)

\* a trajectory and its car
TrajectoryAndCar(t, cr) == [trajectory |-> t, car |-> cr]

\* the length of the Bezier curve from the start point on the source lane to
\* the end point on the target lane: that of its chord, on the unit grid
CurveLength(sourceLane, startS, targetLane, endS) ==
  LET a == LanePointAt(sourceLane, startS)
      b == LanePointAt(targetLane, endS)
  IN Max(1, ISqrt((b.x - a.x) * (b.x - a.x) + (b.z - a.z) * (b.z - a.z)))

\* Trajectory._startLaneChange
StartChange(t, cr, lanes, targetLane) ==
  IF targetLane = NoLane \/ t.isChanging \/ GetCurrentLane(t) = NoLane THEN t
  ELSE LET sourceLane == GetCurrentLane(t)
           sourceLength == lanes[sourceLane].totalLength
           targetLength == lanes[targetLane].totalLength
           startPosition == t.positions[t.current].position
           forwardTravel == Max(cr.length * 3, sourceLength \div 20)
           endPosition == startPosition + forwardTravel
           curveLength == CurveLength(sourceLane, EuclideanModulo(startPosition, sourceLength),
                                      targetLane, EuclideanModulo(endPosition, targetLength))
           t1 == LanePositionSetLane(t, t.next, targetLane)
           t2 == [t1 EXCEPT !.positions[t.next].isPrimary = FALSE]
           t3 == LanePositionSetPosition(t2, lanes, t.next, endPosition - curveLength)
           t4 == LanePositionAcquire(t3, t.next)
       IN [t4 EXCEPT !.transition = Some([position |-> 0, length |-> curveLength,
                                          startPosition |-> startPosition,
                                          endPosition |-> endPosition]),
                     !.isChanging = TRUE]

\* a commit that keeps the released LanePosition as the next one
FinishLaneChange_KeepsNext(t, cr, lanes) ==
  IF ~t.isChanging THEN TrajectoryAndCar(t, cr)
  ELSE LET previous == t.current
           t1 == [t EXCEPT !.current = t.next, !.positions[t.next].isPrimary = TRUE]
           t2 == LanePositionRelease(t1, previous)
           t3 == [t2 EXCEPT !.next = previous, !.transition = Null, !.isChanging = FALSE]
       IN TrajectoryAndCar(t3, [cr EXCEPT !.laneIndex = GetCurrentLaneIndex(t3, lanes)])

\* Trajectory._finishLaneChange
FinishLaneChange(t, cr, lanes) ==
  IF ~t.isChanging THEN TrajectoryAndCar(t, cr)
  ELSE LET previous == t.current
           t1 == [t EXCEPT !.current = t.next, !.positions[t.next].isPrimary = TRUE]
           t2 == LanePositionRelease(t1, previous)
           t3 == [t2 EXCEPT !.positions = Append(@, NewLanePosition(NoLane, 0, TRUE)),
                            !.registers = Append(@, NoRegistrations),
                            !.next = Len(t2.positions) + 1,
                            !.transition = Null,
                            !.isChanging = FALSE]
       IN TrajectoryAndCar(t3, [cr EXCEPT !.laneIndex = GetCurrentLaneIndex(t3, lanes)])

\* an advance that never commits the lane change
TrajectoryAdvance_NoFinish(t, cr, lanes, distance) ==
  LET delta == Max(distance, 0)
  IN IF GetCurrentLane(t) = NoLane THEN TrajectoryAndCar(t, cr)
     ELSE LET t1 == IncrementLanePosition(t, lanes, t.current, delta)
          IN IF ~t1.isChanging \/ t1.transition = Null THEN TrajectoryAndCar(t1, cr)
             ELSE LET tr == Val(t1.transition)
                      moved == Min(tr.position + delta, tr.length)
                      t2 == [t1 EXCEPT !.transition = Some([tr EXCEPT !.position = moved])]
                  IN TrajectoryAndCar(IncrementLanePosition(t2, lanes, t2.next, delta), cr)

\* Trajectory.advance; on the unit grid position + 0.001 >= length is position >= length
TrajectoryAdvance(t, cr, lanes, distance) ==
  LET delta == Max(distance, 0)
  IN IF GetCurrentLane(t) = NoLane THEN TrajectoryAndCar(t, cr)
     ELSE LET t1 == IncrementLanePosition(t, lanes, t.current, delta)
          IN IF ~t1.isChanging \/ t1.transition = Null THEN TrajectoryAndCar(t1, cr)
             ELSE LET tr == Val(t1.transition)
                      moved == Min(tr.position + delta, tr.length)
                      t2 == [t1 EXCEPT !.transition = Some([tr EXCEPT !.position = moved])]
                      t3 == IncrementLanePosition(t2, lanes, t2.next, delta)
                  IN IF moved >= tr.length THEN FinishLaneChange(t3, cr, lanes)
                     ELSE TrajectoryAndCar(t3, cr)

\* Number.isInteger(direction)
IsInteger(x) == x.type = "number" /\ ~x.nan

\* a tryChangeLane that starts a change over a change in progress
TryChangeLane_NoBusyTest(t, cr, rd, lanes, direction) ==
  IF ~IsInteger(direction) \/ direction.value = 0 THEN [result |-> FALSE, trajectory |-> t]
  ELSE IF GetCurrentLane(t) = NoLane \/ ~t.hasRoad THEN [result |-> FALSE, trajectory |-> t]
  ELSE IF lanes[GetCurrentLane(t)].laneIndex = Null THEN [result |-> FALSE, trajectory |-> t]
  ELSE LET targetLane == GetLane(rd, Val(lanes[GetCurrentLane(t)].laneIndex) + direction.value)
       IN IF targetLane = NoLane THEN [result |-> FALSE, trajectory |-> t]
          ELSE [result |-> TRUE,
                trajectory |-> StartChange([t EXCEPT !.isChanging = FALSE], cr, lanes, targetLane)]

\* Trajectory.tryChangeLane.  A lane without a laneIndex gives the index NaN,
\* for which road.getLane returns nothing.
TryChangeLane(t, cr, rd, lanes, direction) ==
  IF ~IsInteger(direction) \/ direction.value = 0 THEN [result |-> FALSE, trajectory |-> t]
  ELSE IF t.isChanging THEN [result |-> FALSE, trajectory |-> t]
  ELSE IF GetCurrentLane(t) = NoLane \/ ~t.hasRoad THEN [result |-> FALSE, trajectory |-> t]
  ELSE IF lanes[GetCurrentLane(t)].laneIndex = Null THEN [result |-> FALSE, trajectory |-> t]
  ELSE LET targetLane == GetLane(rd, Val(lanes[GetCurrentLane(t)].laneIndex) + direction.value)
       IN IF targetLane = NoLane THEN [result |-> FALSE, trajectory |-> t]
          ELSE [result |-> TRUE, trajectory |-> StartChange(t, cr, lanes, targetLane)]

\* the scene, with the Trajectory of the controlled car built on a LanePosition
\* that has a lane or none, and that was acquired before or not
InitTrajectory ==
  \E l \in LaneIds \cup {NoLane}, p \in StartPositions, acquired \in BOOLEAN, hasRoad \in BOOLEAN :
    LET made == NewRoad(<<1, 2>>, [k \in LaneIds |-> NewLane(LaneShapes(k), TRUE)])
        cars == [c \in Cars |-> NewCar(c, made.road, made.lane, InitLaneIndex(c), IntervalMin)]
        w == PlaceCars(World(cars, made.lane), made.road, Cars)
        given == LanePositionSetPosition(
                   [positions |-> <<NewLanePosition(l, 0, TRUE)>>, registers |-> <<NoRegistrations>>],
                   made.lane, 1, p)
        held == IF acquired THEN LanePositionAcquire(given, 1) ELSE given
    IN /\ car = w.car
       /\ lane = w.lane
       /\ road = made.road
       /\ frame = [phase |-> "idle", i |-> 0, dt |-> 0, n |-> 0]
       /\ calls = 0
       /\ lastOp = [name |-> "setup", car |-> NoCar, lane |-> NoLane, dt |-> 0]
       /\ returned = Null
       /\ attemptLog = NoAttempts
       /\ integrated = [c \in Cars |-> 0]
       /\ trajectory = Some(TrajectoryConstructor(held.positions[1], held.registers[1], hasRoad))
       /\ list = Null
       /\ sim = Null

\* a call on the trajectory of the controlled car or on one of its LanePositions
TrajectoryCall(name, arg, result, after) ==
  /\ frame.phase = "idle"
  /\ calls < MaxTrajectoryCalls
  /\ calls' = calls + 1
  /\ lastOp' = [name |-> name, car |-> ControlledCar, lane |-> NoLane, dt |-> 0]
  /\ returned' = Some([arg |-> arg, result |-> result])
  /\ trajectory' = Some(after.trajectory)
  /\ car' = [car EXCEPT ![ControlledCar] = after.car]
  /\ UNCHANGED <<lane, road, frame, attemptLog, integrated, list, sim>>

\* trajectory.tryChangeLane(direction)
TryChangeLaneCall(direction) ==
  LET r == TryChangeLane(Val(trajectory), car[ControlledCar], road, lane, direction)
  IN TrajectoryCall("tryChangeLane", direction, r.result,
                    TrajectoryAndCar(r.trajectory, car[ControlledCar]))

\* trajectory.advance(distance)
AdvanceCall(distance) ==
  /\ distance \in DistanceInputs
  /\ TrajectoryCall("advance", distance, FALSE,
                    TrajectoryAdvance(Val(trajectory), car[ControlledCar], lane, distance))

NextTrajectory ==
  \/ \E direction \in DirectionInputs : TryChangeLaneCall(direction)
  \/ \E distance \in DistanceInputs : AdvanceCall(distance)

SpecTrajectory == InitTrajectory /\ [][NextTrajectory]_vars

\* tryChangeLane(direction) has a reason to refuse
Refuses(t, direction) ==
  \/ ~IsInteger(direction)
  \/ direction.value = 0
  \/ t.isChanging
  \/ GetCurrentLane(t) = NoLane
  \/ ~t.hasRoad
  \/ LET index == GetCurrentLaneIndex(t, lane) + direction.value
     IN index < 0 \/ index >= Len(road.lanes)

\* C34: tryChangeLane(direction) returns false and changes nothing (current,
\* next, transition, isChanging) when direction is 0 or not an integer, when a
\* change is in progress, when the car has no current lane or no road, or when
\* the road has no lane at the current lane's index plus direction; otherwise it
\* starts exactly one lane change toward that lane and returns true.
C34_TryChangeLane ==
  [][lastOp'.name = "tryChangeLane" =>
       LET t == Val(trajectory)
           after == Val(trajectory')
           direction == Val(returned').arg
       IN IF Refuses(t, direction)
          THEN Val(returned').result = FALSE /\ after = t /\ car' = car
          ELSE LET target == road.lanes[GetCurrentLaneIndex(t, lane) + direction.value + 1]
               IN /\ Val(returned').result = TRUE
                  /\ after.isChanging /\ after.transition # Null
                  /\ Val(after.transition).position = 0
                  /\ after.current = t.current /\ after.next = t.next
                  /\ after.positions[t.current] = t.positions[t.current]
                  /\ after.positions[t.next].lane = target
                  /\ ~after.positions[t.next].free
                  /\ after.registers =
                       [t.registers EXCEPT ![t.next][target] = @ + 1]]_vars

C34_Witness ==
  /\ lastOp.name = "tryChangeLane"
  /\ Val(returned).arg = Num(1) /\ Val(returned).result = FALSE
  /\ Val(trajectory).isChanging
  /\ Val(Val(trajectory).transition).position > 0

\* C35: during a lane change every advance(distance) moves the current-lane
\* position and the target-lane shadow position by the same non-negative amount
\* (a negative distance moves nothing), transition.position never decreases and
\* never exceeds transition.length, and the first advance that brings
\* transition.position to transition.length commits the change: current becomes
\* the target-lane position, the source-lane position is released, and
\* car.laneIndex becomes the target lane's index.
C35_AdvanceDuringChange ==
  [][(lastOp'.name = "advance" /\ Val(trajectory).isChanging) =>
       LET t == Val(trajectory)
           after == Val(trajectory')
           tr == Val(t.transition)
           distance == Val(returned').arg
           delta == IF distance < 0 THEN 0 ELSE distance
           source == t.positions[t.current]
           shadow == t.positions[t.next]
       IN /\ after.positions[t.current].position =
               EuclideanModulo(source.position + delta, lane[source.lane].totalLength)
          /\ after.positions[t.next].position =
               EuclideanModulo(shadow.position + delta, lane[shadow.lane].totalLength)
          /\ tr.position <= tr.length
          /\ IF tr.position + delta >= tr.length
             THEN /\ after.current = t.next
                  /\ after.positions[after.current].lane = shadow.lane
                  /\ after.positions[after.current].isPrimary
                  /\ after.positions[t.current].free
                  /\ ~after.isChanging /\ after.transition = Null
                  /\ car'[ControlledCar].laneIndex = Val(lane[shadow.lane].laneIndex)
             ELSE /\ after.current = t.current /\ after.next = t.next
                  /\ after.isChanging
                  /\ Val(after.transition).position = tr.position + delta
                  /\ car' = car]_vars

C35_Witness ==
  /\ lastOp.name = "advance"
  /\ Val(returned).arg = 5
  /\ Val(trajectory).current = 2
  /\ ~Val(trajectory).isChanging
  /\ Val(trajectory).positions[1].free
  /\ Val(trajectory).positions[1].position = 8
  /\ car[ControlledCar].laneIndex = 1

\* C36: after any sequence of tryChangeLane and advance calls, isChanging is
\* true iff transition is non-null, and iff the next LanePosition has a lane
\* and holds a reservation (free = false); when isChanging is false the next
\* LanePosition has no lane and is free.
C36_ChangingIffReserved ==
  LET t == Val(trajectory)
      next == t.positions[t.next]
  IN /\ t.isChanging <=> t.transition # Null
     /\ t.isChanging <=> (next.lane # NoLane /\ ~next.free)
     /\ ~t.isChanging => (next.lane = NoLane /\ next.free)

C36_Witness ==
  /\ Val(trajectory).isChanging
  /\ Val(trajectory).current = 2
  /\ Val(trajectory).next = 3
  /\ Val(trajectory).positions[3].lane # NoLane
  /\ ~Val(trajectory).positions[3].free
  /\ Val(trajectory).positions[2].lane # Val(trajectory).positions[3].lane

\* lanePosition.setLane(lane), acquire() and release() on a LanePosition of the trajectory
SetLaneCall(id, l) ==
  /\ id \in DOMAIN Val(trajectory).positions
  /\ TrajectoryCall("setLane", l, FALSE,
                    TrajectoryAndCar(LanePositionSetLane(Val(trajectory), id, l), car[ControlledCar]))

AcquireCall(id) ==
  /\ id \in DOMAIN Val(trajectory).positions
  /\ TrajectoryCall("acquire", id, FALSE,
                    TrajectoryAndCar(LanePositionAcquire(Val(trajectory), id), car[ControlledCar]))

ReleaseCall(id) ==
  /\ id \in DOMAIN Val(trajectory).positions
  /\ TrajectoryCall("release", id, FALSE,
                    TrajectoryAndCar(LanePositionRelease(Val(trajectory), id), car[ControlledCar]))

NextLanePosition ==
  \/ \E direction \in DirectionInputs : TryChangeLaneCall(direction)
  \/ \E distance \in DistanceInputs : AdvanceCall(distance)
  \/ \E id \in 1..3, l \in LaneIds \cup {NoLane} : SetLaneCall(id, l)
  \/ \E id \in 1..3 : AcquireCall(id)
  \/ \E id \in 1..3 : ReleaseCall(id)

SpecLanePosition == InitTrajectory /\ [][NextLanePosition]_vars

\* C37: for every LanePosition, across any sequence of setLane, acquire,
\* release and Trajectory lane changes, the registerPosition and
\* unregisterPosition calls on a lane alternate and start with registerPosition
\* (no unregisterPosition for a LanePosition that is not registered, no second
\* registerPosition without an unregisterPosition between), and a LanePosition
\* is registered on at most one lane at a time.
C37_RegistrationsAlternate ==
  LET t == Val(trajectory)
  IN \A id \in DOMAIN t.positions :
       /\ \A l \in LaneIds : t.registers[id][l] \in {0, 1}
       /\ Cardinality({l \in LaneIds : t.registers[id][l] # 0}) <= 1

\* ---------------------------------------------------------------------------
\* Lane.mapDistanceToShapeNode on lanes built from one to three segments

SegmentLengths == {0, 3, 4}
ShapeInputs ==
  UNION {[1..n -> SegmentLengths] : n \in 1..3}
MapDistances == (0 - 3)..12

\* the loop of Lane.setShapes: each node's length and cumulative startLength
RECURSIVE ShapeNodesFrom(_, _)
ShapeNodesFrom(shapes, cumulative) ==
  IF shapes = <<>> THEN <<>>
  ELSE <<[length |-> Head(shapes), startLength |-> cumulative]>>
         \o ShapeNodesFrom(Tail(shapes), cumulative + Head(shapes))

ShapeNodes(shapes) == ShapeNodesFrom(shapes, 0)

\* a lookup that does not wrap the distance to the lane's length
MapDistanceToShapeNode_NoModulo(nodes, totalLength, distance) ==
  IF Len(nodes) = 0 \/ totalLength = 0 THEN Null
  ELSE LET target == distance
           found == CHOOSE i \in DOMAIN nodes :
                      /\ (target <= nodes[i].startLength + nodes[i].length \/ i = Len(nodes))
                      /\ \A j \in 1..(i - 1) : target > nodes[j].startLength + nodes[j].length
           localDistance == target - nodes[found].startLength
       IN Some([node |-> found,
                localT |-> IF nodes[found].length > 0
                           THEN Clamp((localDistance * ProgressOne) \div nodes[found].length,
                                      0, ProgressOne)
                           ELSE 0])

\* Lane.mapDistanceToShapeNode: the first node whose end is at or beyond the
\* wrapped distance, or the last node; localT is a fraction of ProgressOne
MapDistanceToShapeNode(nodes, totalLength, distance) ==
  IF Len(nodes) = 0 \/ totalLength = 0 THEN Null
  ELSE LET target == EuclideanModulo(distance, totalLength)
           found == CHOOSE i \in DOMAIN nodes :
                      /\ (target <= nodes[i].startLength + nodes[i].length \/ i = Len(nodes))
                      /\ \A j \in 1..(i - 1) : target > nodes[j].startLength + nodes[j].length
           localDistance == target - nodes[found].startLength
       IN Some([node |-> found,
                localT |-> IF nodes[found].length > 0
                           THEN Clamp((localDistance * ProgressOne) \div nodes[found].length,
                                      0, ProgressOne)
                           ELSE 0])

\* the scene with a first lane built from the given segments
InitShapes ==
  \E shapes \in ShapeInputs :
    LET made == NewRoad(<<1, 2>>, [l \in LaneIds |->
                  NewLane(IF l = 1 THEN shapes ELSE LaneShapes(l), TRUE)])
        cars == [c \in Cars |-> NewCar(c, made.road, made.lane, InitLaneIndex(c), IntervalMin)]
        w == PlaceCars(World(cars, made.lane), made.road, Cars)
    IN /\ car = w.car
       /\ lane = w.lane
       /\ road = made.road
       /\ frame = [phase |-> "idle", i |-> 0, dt |-> 0, n |-> 0]
       /\ calls = 0
       /\ lastOp = [name |-> "setup", car |-> NoCar, lane |-> NoLane, dt |-> 0]
       /\ returned = Null
       /\ attemptLog = NoAttempts
       /\ integrated = [c \in Cars |-> 0]
       /\ trajectory = Null
       /\ list = Null
       /\ sim = Null

\* lane.mapDistanceToShapeNode(distance)
MapDistanceCall(l, distance) ==
  /\ frame.phase = "idle"
  /\ calls < MaxCalls
  /\ calls' = calls + 1
  /\ lastOp' = [name |-> "mapDistanceToShapeNode", car |-> NoCar, lane |-> l, dt |-> 0]
  /\ returned' = Some([distance |-> distance,
                       nodes |-> ShapeNodes(lane[l].shapes),
                       result |-> MapDistanceToShapeNode(ShapeNodes(lane[l].shapes),
                                                         lane[l].totalLength, distance)])
  /\ UNCHANGED <<car, lane, road, frame, attemptLog, integrated, others>>

NextShapes ==
  \/ \E l \in LaneIds, distance \in MapDistances : MapDistanceCall(l, distance)

SpecShapes == InitShapes /\ [][NextShapes]_vars

\* (distance mod totalLength - startLength) / length as a fraction of
\* ProgressOne; 0 / 0 is NaN
LocalQuotient(localDistance, length) ==
  IF length = 0 THEN NaN ELSE (localDistance * ProgressOne) \div length

\* the lane of the call has a segment and a positive length
MappedOnLane ==
  /\ lastOp.name = "mapDistanceToShapeNode"
  /\ Len(lane[lastOp.lane].shapes) >= 1
  /\ lane[lastOp.lane].totalLength > 0

\* the returned segment's range contains the wrapped distance, and the
\* startLength values are the cumulative sums of the preceding lengths
SegmentContainsDistance ==
  LET r == Val(returned)
      ln == lane[lastOp.lane]
      target == EuclideanModulo(r.distance, ln.totalLength)
      node == r.nodes[Val(r.result).node]
  IN /\ r.result # Null
     /\ node.startLength <= target /\ target <= node.startLength + node.length
     /\ \A i \in DOMAIN r.nodes :
          /\ r.nodes[i].length = ln.shapes[i]
          /\ r.nodes[i].startLength = SumSeq(SubSeq(ln.shapes, 1, i - 1))

\* C38 as stated: on a lane with at least one segment and positive total length,
\* mapDistanceToShapeNode(distance) returns, for every distance, a segment
\* whose range [startLength, startLength + length] contains distance mod
\* totalLength, with localT = (distance mod totalLength - startLength) / length
\* in [0, 1]; the startLength values are the cumulative sums of the preceding
\* segments' lengths.
C38_SegmentAndQuotient ==
  MappedOnLane =>
    /\ SegmentContainsDistance
    /\ LET r == Val(returned)
           node == r.nodes[Val(r.result).node]
           target == EuclideanModulo(r.distance, lane[lastOp.lane].totalLength)
       IN /\ Val(r.result).localT = LocalQuotient(target - node.startLength, node.length)
          /\ Val(r.result).localT \in 0..ProgressOne

\* C38, amended: the same, with localT = 0 when the returned segment's length is 0
C38_SegmentAndLocalT ==
  MappedOnLane =>
    /\ SegmentContainsDistance
    /\ LET r == Val(returned)
           node == r.nodes[Val(r.result).node]
           target == EuclideanModulo(r.distance, lane[lastOp.lane].totalLength)
       IN /\ Val(r.result).localT =
               IF node.length = 0 THEN 0 ELSE LocalQuotient(target - node.startLength, node.length)
          /\ Val(r.result).localT \in 0..ProgressOne

C38_Witness ==
  /\ MappedOnLane
  /\ Len(lane[lastOp.lane].shapes) = 3
  /\ Val(returned).distance > lane[lastOp.lane].totalLength
  /\ Val(Val(returned).result).node = 2
  /\ Val(Val(returned).result).localT \in 1..(ProgressOne - 1)

\* ---------------------------------------------------------------------------
\* The reference DoublyLinkedList.  A list record holds length, head and tail
\* and the Node objects made so far (an object is its index in nodes; NoNode
\* is null).

NoNode == 0
MaxNodes == 3
MaxListCalls == 5
ListValues == {1, 2}
ListIndexes == (0 - 1)..MaxNodes

EmptyList == [length |-> 0, head |-> NoNode, tail |-> NoNode, nodes |-> <<>>]

\* new Node(value)
NewNode(value) == [value |-> value, prev |-> NoNode, next |-> NoNode]

ListResult(l, result) == [list |-> l, result |-> result]

\* the two loops of DoublyLinkedList.get
RECURSIVE WalkNext(_, _, _, _)
WalkNext(l, currentNode, counter, index) ==
  IF counter < index THEN WalkNext(l, l.nodes[currentNode].next, counter + 1, index)
  ELSE currentNode

RECURSIVE WalkPrev(_, _, _, _)
WalkPrev(l, currentNode, counter, index) ==
  IF counter > index THEN WalkPrev(l, l.nodes[currentNode].prev, counter - 1, index)
  ELSE currentNode

\* DoublyLinkedList.get
ListGet(l, index) ==
  IF l.length = 0 \/ index < 0 \/ index >= l.length THEN NoNode
  ELSE IF 2 * index < l.length THEN WalkNext(l, l.head, 0, index)
  ELSE WalkPrev(l, l.tail, l.length - 1, index)

\* DoublyLinkedList.set
ListSet(l, index, value) ==
  LET currentNode == ListGet(l, index)
  IN IF currentNode # NoNode
     THEN ListResult([l EXCEPT !.nodes[currentNode].value = value], currentNode)
     ELSE ListResult(l, NoNode)

\* DoublyLinkedList.push
ListPush(l, value) ==
  LET newNode == Len(l.nodes) + 1
      made == [l EXCEPT !.nodes = Append(@, NewNode(value))]
  IN IF l.length = 0
     THEN ListResult([made EXCEPT !.head = newNode, !.tail = newNode, !.length = 1], newNode)
     ELSE ListResult([made EXCEPT !.nodes[l.tail].next = newNode,
                                  !.nodes[newNode].prev = l.tail,
                                  !.tail = newNode,
                                  !.length = @ + 1], newNode)

\* a pop that leaves the new tail linked to the removed node
ListPop_KeepsLink(l) ==
  IF l.length = 0 THEN ListResult(l, NoNode)
  ELSE LET nodeToRemove == l.tail
       IN IF l.length = 1
          THEN ListResult([l EXCEPT !.head = NoNode, !.tail = NoNode, !.length = 0], nodeToRemove)
          ELSE ListResult([l EXCEPT !.tail = l.nodes[l.tail].prev,
                                    !.nodes[nodeToRemove].prev = NoNode,
                                    !.length = @ - 1], nodeToRemove)

\* DoublyLinkedList.pop
ListPop(l) ==
  IF l.length = 0 THEN ListResult(l, NoNode)
  ELSE LET nodeToRemove == l.tail
           newTail == l.nodes[l.tail].prev
       IN IF l.length = 1
          THEN ListResult([l EXCEPT !.head = NoNode, !.tail = NoNode, !.length = 0], nodeToRemove)
          ELSE ListResult([l EXCEPT !.tail = newTail,
                                    !.nodes[newTail].next = NoNode,
                                    !.nodes[nodeToRemove].prev = NoNode,
                                    !.length = @ - 1], nodeToRemove)

\* DoublyLinkedList.unshift
ListUnshift(l, value) ==
  LET newNode == Len(l.nodes) + 1
      made == [l EXCEPT !.nodes = Append(@, NewNode(value))]
  IN IF l.length = 0
     THEN ListResult([made EXCEPT !.head = newNode, !.tail = newNode, !.length = 1], newNode)
     ELSE ListResult([made EXCEPT !.nodes[newNode].next = l.head,
                                  !.nodes[l.head].prev = newNode,
                                  !.head = newNode,
                                  !.length = @ + 1], newNode)

\* DoublyLinkedList.shift
ListShift(l) ==
  IF l.length = 0 THEN ListResult(l, NoNode)
  ELSE LET nodeToRemove == l.head
           newHead == l.nodes[l.head].next
       IN IF l.length = 1
          THEN ListResult([l EXCEPT !.head = NoNode, !.tail = NoNode, !.length = 0], nodeToRemove)
          ELSE ListResult([l EXCEPT !.head = newHead,
                                    !.nodes[newHead].prev = NoNode,
                                    !.nodes[nodeToRemove].next = NoNode,
                                    !.length = @ - 1], nodeToRemove)

\* DoublyLinkedList.insert
ListInsert(l, index, value) ==
  IF index < 0 \/ index > l.length THEN ListResult(l, NoNode)
  ELSE IF index = 0 THEN ListUnshift(l, value)
  ELSE IF index = l.length THEN ListPush(l, value)
  ELSE LET newNode == Len(l.nodes) + 1
           newPrevNode == ListGet(l, index - 1)
           newNextNode == l.nodes[newPrevNode].next
       IN ListResult([l EXCEPT !.nodes = [Append(@, NewNode(value)) EXCEPT
                                            ![newNode].prev = newPrevNode,
                                            ![newPrevNode].next = newNode,
                                            ![newNode].next = newNextNode,
                                            ![newNextNode].prev = newNode],
                               !.length = @ + 1], newNode)

\* DoublyLinkedList.remove
ListRemove(l, index) ==
  IF l.length = 0 \/ index < 0 \/ index >= l.length THEN ListResult(l, NoNode)
  ELSE IF index = 0 THEN ListShift(l)
  ELSE IF index = l.length - 1 THEN ListPop(l)
  ELSE LET nodeToRemove == ListGet(l, index)
           prevNodeToRemove == l.nodes[nodeToRemove].prev
           nextNodeToRemove == l.nodes[nodeToRemove].next
       IN ListResult([l EXCEPT !.nodes[nodeToRemove].prev = NoNode,
                               !.nodes[nodeToRemove].next = NoNode,
                               !.nodes[prevNodeToRemove].next = nextNodeToRemove,
                               !.nodes[nextNodeToRemove].prev = prevNodeToRemove,
                               !.length = @ - 1], nodeToRemove)

\* the scene, with an empty reference list
InitList ==
  /\ \E third \in {0, 1} :
       LET made == NewRoad(<<1, 2>>, [l \in LaneIds |-> NewLane(LaneShapes(l), TRUE)])
           cars == [c \in Cars |-> NewCar(c, made.road, made.lane,
                                          IF c = 3 THEN third ELSE InitLaneIndex(c), IntervalMin)]
           w == PlaceCars(World(cars, made.lane), made.road, Cars)
       IN car = w.car /\ lane = w.lane /\ road = made.road
  /\ frame = [phase |-> "idle", i |-> 0, dt |-> 0, n |-> 0]
  /\ calls = 0
  /\ lastOp = [name |-> "setup", car |-> NoCar, lane |-> NoLane, dt |-> 0]
  /\ returned = Null
  /\ attemptLog = NoAttempts
  /\ integrated = [c \in Cars |-> 0]
  /\ trajectory = Null
  /\ list = Some(EmptyList)
  /\ sim = Null

\* a call of a method of the list; the list as it was is kept for comparison
ListCall(name, index, r) ==
  /\ calls < MaxListCalls
  /\ Len(r.list.nodes) <= MaxNodes
  /\ calls' = calls + 1
  /\ lastOp' = [name |-> name, car |-> NoCar, lane |-> NoLane, dt |-> 0]
  /\ returned' = Some([index |-> index, result |-> r.result, before |-> Val(list)])
  /\ list' = Some(r.list)
  /\ UNCHANGED <<car, lane, road, frame, attemptLog, integrated, trajectory, sim>>

PushCall(value) == value \in ListValues /\ ListCall("push", 0, ListPush(Val(list), value))
PopCall == list # Null /\ ListCall("pop", 0, ListPop(Val(list)))
UnshiftCall(value) == value \in ListValues /\ ListCall("unshift", 0, ListUnshift(Val(list), value))
ShiftCall == list # Null /\ ListCall("shift", 0, ListShift(Val(list)))
InsertCall(index, value) == index \in ListIndexes /\ ListCall("insert", index, ListInsert(Val(list), index, value))
RemoveCall(index) == index \in ListIndexes /\ ListCall("remove", index, ListRemove(Val(list), index))
SetCall(index, value) == index \in ListIndexes /\ ListCall("set", index, ListSet(Val(list), index, value))
GetCall(index) ==
  index \in ListIndexes /\ ListCall("get", index, ListResult(Val(list), ListGet(Val(list), index)))

NextList ==
  \/ \E value \in ListValues : PushCall(value)
  \/ PopCall
  \/ \E value \in ListValues : UnshiftCall(value)
  \/ ShiftCall
  \/ \E index \in ListIndexes, value \in ListValues : InsertCall(index, value)
  \/ \E index \in ListIndexes : RemoveCall(index)
  \/ \E index \in ListIndexes, value \in ListValues : SetCall(index, value)
  \/ \E index \in ListIndexes : GetCall(index)

SpecList == InitList /\ [][NextList]_vars

\* the nodes reached from node by next, in order
RECURSIVE ChainFrom(_, _, _)
ChainFrom(l, node, fuel) ==
  IF node = NoNode \/ fuel = 0 THEN <<>>
  ELSE <<node>> \o ChainFrom(l, l.nodes[node].next, fuel - 1)

\* the index is outside the range the method accepts
OutOfRange(name, index, length) ==
  \/ name \in {"get", "set", "remove"} /\ (index < 0 \/ index >= length)
  \/ name = "insert" /\ (index < 0 \/ index > length)

\* C39: after any sequence of push, pop, shift, unshift, insert, remove and set
\* on the reference DoublyLinkedList, length is the number of nodes reachable
\* from head via next, head.prev and tail.next are null, n.next.prev = n for
\* every node n but the tail, head and tail are null exactly when length is 0,
\* and get, set, insert and remove with an out-of-range index return null and
\* leave the list unchanged.
C39_ListWellFormed ==
  LET l == Val(list)
      chain == ChainFrom(l, l.head, Len(l.nodes) + 1)
  IN /\ l.length = Len(chain)
     /\ l.head # NoNode => l.nodes[l.head].prev = NoNode
     /\ l.tail # NoNode => l.nodes[l.tail].next = NoNode
     /\ \A i \in DOMAIN chain :
          chain[i] # l.tail => l.nodes[l.nodes[chain[i]].next].prev = chain[i]
     /\ l.length > 0 => chain[Len(chain)] = l.tail
     /\ (l.head = NoNode) <=> (l.length = 0)
     /\ (l.tail = NoNode) <=> (l.length = 0)
     /\ (returned # Null /\ OutOfRange(lastOp.name, Val(returned).index, Val(returned).before.length))
          => (Val(returned).result = NoNode /\ l = Val(returned).before)

C39_Witness ==
  /\ lastOp.name = "remove"
  /\ Val(returned).index = 1
  /\ Val(returned).before.length = 3
  /\ Val(returned).result # NoNode
  /\ Val(list).length = 2
  /\ Val(list).nodes[Val(list).head].next = Val(list).tail

\* ---------------------------------------------------------------------------
\* The reference simulation: cars in a row before a stop line.  Lengths are in
\* tenths of a metre (half pixels), speeds in tenths of a metre per second; the
\* cars are kept in list order, the car in front of cars[i] is cars[i - 1].

PixelsPerMeter == 5
Goal == (500 * 10) \div PixelsPerMeter
CarWidth == 10 * 5
ReferenceMaxSpeed == 10 * 5
MaxSimFrames == 3
SimStarts == {0, 60}
SimDeltas == {0, 1, 2}

\* new Car({ width: 5, height: 2, x, y: 50 })
NewReferenceCar(x) == [x |-> x, speed |-> 0, width |-> CarWidth]

\* Car.getAcceleration, with the coefficient in thousandths;
\* 2 * sqrt(a * b) is 2.585 and 2 * b is 3.34
GetAcceleration(cr, distance, distanceToStopLine, deltaSpeed) ==
  IF distance <= 0 \/ distanceToStopLine <= 0 THEN 0
  ELSE LET freeRoadCoeff == (cr.speed * cr.speed * cr.speed * cr.speed * 1000)
                              \div (ReferenceMaxSpeed * ReferenceMaxSpeed
                                      * ReferenceMaxSpeed * ReferenceMaxSpeed)
           timeGap == cr.speed * 3
           breakGap == (cr.speed * deltaSpeed * 100) \div 2585
           safeDistance == 20 + timeGap + breakGap
           busyRoadCoeff == IF distance = Infinity THEN 0
                            ELSE (safeDistance * safeDistance * 1000) \div (distance * distance)
           safeIntersectionDistance == 10 + timeGap + (cr.speed * cr.speed * 10) \div 334
           intersectionCoeff == (safeIntersectionDistance * safeIntersectionDistance * 1000)
                                  \div (distanceToStopLine * distanceToStopLine)
           coeff == 1000 - freeRoadCoeff - busyRoadCoeff - intersectionCoeff
       IN (10 * coeff) \div 1000

\* the distances Car.move measures: to the stop line and to the car in front
DistanceToStopLine(cr) == Max(0, Goal - cr.x) - cr.width \div 2

DistanceToFrontCar(cr, previousCar) ==
  IF previousCar = Null THEN Infinity
  ELSE Max(0, Val(previousCar).x - cr.x) - cr.width \div 2 - Val(previousCar).width \div 2

\* Car.move(delta)
Move(cr, previousCar, delta) ==
  LET distanceToStopLine == DistanceToStopLine(cr)
      distanceToFrontCar == DistanceToFrontCar(cr, previousCar)
      deltaSpeed == IF previousCar = Null THEN 0 ELSE cr.speed - Val(previousCar).speed
      acceleration == GetAcceleration(cr, distanceToFrontCar, distanceToStopLine, deltaSpeed)
      speed == Clamp(cr.speed + acceleration * delta, 0, ReferenceMaxSpeed)
      step == Max(0, speed * delta + (acceleration * delta * delta) \div 2)
  IN [cr EXCEPT !.speed = speed,
                !.x = @ + Min(step, Min(distanceToFrontCar, distanceToStopLine))]

\* init(): the cars are pushed to the list, each at its start
InitSim ==
  /\ \E third \in {0, 1} :
       LET made == NewRoad(<<1, 2>>, [l \in LaneIds |-> NewLane(LaneShapes(l), TRUE)])
           cars == [c \in Cars |-> NewCar(c, made.road, made.lane,
                                          IF c = 3 THEN third ELSE InitLaneIndex(c), IntervalMin)]
           w == PlaceCars(World(cars, made.lane), made.road, Cars)
       IN car = w.car /\ lane = w.lane /\ road = made.road
  /\ frame = [phase |-> "idle", i |-> 0, dt |-> 0, n |-> 0]
  /\ calls = 0
  /\ lastOp = [name |-> "setup", car |-> NoCar, lane |-> NoLane, dt |-> 0]
  /\ returned = Null
  /\ attemptLog = NoAttempts
  /\ integrated = [c \in Cars |-> 0]
  /\ trajectory = Null
  /\ list = Null
  /\ \E starts \in [1..3 -> SimStarts] :
       sim = Some([cars |-> [i \in 1..3 |-> NewReferenceCar(starts[i])],
                   node |-> 0, delta |-> 0, frames |-> 0])

\* mainLoop: a frame begins at the head of the list
MainLoopBegin(delta) ==
  /\ Val(sim).node = 0
  /\ Val(sim).frames < MaxSimFrames
  /\ sim' = Some([Val(sim) EXCEPT !.node = 1, !.delta = delta, !.frames = @ + 1])
  /\ lastOp' = [name |-> "mainLoop", car |-> NoCar, lane |-> NoLane, dt |-> delta]
  /\ UNCHANGED <<car, lane, road, frame, calls, returned, attemptLog, integrated, trajectory, list>>

\* mainLoop: car.move(delta) on the node, then on to node.next
MainLoopMove ==
  /\ Val(sim).node # 0
  /\ LET s == Val(sim)
         i == s.node
         previousCar == IF i = 1 THEN Null ELSE Some(s.cars[i - 1])
     IN /\ sim' = Some([s EXCEPT !.cars[i] = Move(@, previousCar, s.delta),
                                 !.node = IF i = Len(s.cars) THEN 0 ELSE i + 1])
        /\ lastOp' = [name |-> "move", car |-> i, lane |-> NoLane, dt |-> s.delta]
        /\ returned' = Some([distanceToFrontCar |-> DistanceToFrontCar(s.cars[i], previousCar),
                             distanceToStopLine |-> DistanceToStopLine(s.cars[i])])
  /\ UNCHANGED <<car, lane, road, frame, calls, attemptLog, integrated, trajectory, list>>

NextSim ==
  \/ \E delta \in SimDeltas : MainLoopBegin(delta)
  \/ MainLoopMove

SpecSim == InitSim /\ [][NextSim]_vars

\* C40: Car.move never decreases a car's x and never moves a car further than
\* its distance to the car in front or to the stop line, for every arrangement
\* of cars, cars that start at the same x included.
C40_MoveIsForwardAndBounded ==
  [][lastOp'.name = "move" =>
       LET i == lastOp'.car
           step == Val(sim').cars[i].x - Val(sim).cars[i].x
       IN /\ step >= 0
          /\ step <= Max(0, Val(returned').distanceToFrontCar)
          /\ step <= Max(0, Val(returned').distanceToStopLine)]_vars

\* the same for cars that are clear of the car in front and of the stop line
C40_ForwardWhenClear ==
  [][(lastOp'.name = "move" /\ Val(returned').distanceToFrontCar >= 0
        /\ Val(returned').distanceToStopLine >= 0) =>
       LET i == lastOp'.car
           step == Val(sim').cars[i].x - Val(sim).cars[i].x
       IN /\ step >= 0
          /\ step <= Val(returned').distanceToFrontCar
          /\ step <= Val(returned').distanceToStopLine]_vars

C40_MovedForward ==
  /\ lastOp.name = "move"
  /\ \E i \in 1..3 : Val(sim).cars[i].x > 60

====
